---------------------------- MODULE Spec2Model ----------------------------
(***************************************************************************)
(* KinderSchutz-Bot: the response-resolution pipeline.                     *)
(*                                                                         *)
(*   browser   pages/index.js            handleSendMessage                 *)
(*             src/services/chatService  generateBotResponse and its       *)
(*                                       helpers (safety scanner, caches)  *)
(*   server    pages/api/chat.js         handler of POST /api/chat         *)
(*                                                                         *)
(* Texts are sequences of character codes, so that toLowerCase, includes,  *)
(* length and the regular expressions are computed on the characters.      *)
(***************************************************************************)
EXTENDS Integers, Sequences, FiniteSets, TLC

(***************************************************************************)
(* Literals of the source.                                                 *)
(***************************************************************************)

\* CONCERN_KEYWORDS, in list order, each keyword as its sequence of character codes.
CONCERN_KEYWORDS ==
  <<
    <<109, 105, 115, 115, 98, 114, 97, 117, 99, 104>>,  \* "missbrauch"
    <<103, 101, 115, 99, 104, 108, 97, 103, 101, 110>>,  \* "geschlagen"
    <<97, 110, 103, 101, 102, 97, 115, 115, 116>>,  \* "angefasst"
    <<98, 101, 114, 252, 104, 114, 116>>,  \* "ber\u00fchrt"
    <<103, 101, 119, 97, 108, 116>>,  \* "gewalt"
    <<97, 110, 103, 115, 116>>,  \* "angst"
    <<116, 114, 97, 105, 110, 101, 114>>,  \* "trainer"
    <<108, 101, 104, 114, 101, 114>>,  \* "lehrer"
    <<118, 101, 114, 101, 105, 110>>,  \* "verein"
    <<109, 97, 110, 110, 115, 99, 104, 97, 102, 116>>,  \* "mannschaft"
    <<116, 101, 97, 109>>,  \* "team"
    <<115, 99, 104, 117, 108, 101>>,  \* "schule"
    <<119, 101, 104, 116, 117, 110>>,  \* "wehtun"
    <<119, 101, 104, 116, 117, 116>>,  \* "wehtut"
    <<119, 101, 104, 32, 116, 117, 116>>,  \* "weh tut"
    <<104, 105, 108, 102, 101>>,  \* "hilfe"
    <<97, 108, 108, 101, 105, 110>>,  \* "allein"
    <<103, 101, 104, 101, 105, 109, 110, 105, 115>>,  \* "geheimnis"
    <<110, 105, 99, 104, 116, 32, 115, 97, 103, 101, 110>>,  \* "nicht sagen"
    <<110, 105, 99, 104, 116, 32, 101, 114, 122, 228, 104, 108, 101, 110>>,  \* "nicht erz\u00e4hlen"
    <<110, 105, 99, 104, 116, 32, 118, 101, 114, 114, 97, 116, 101, 110>>,  \* "nicht verraten"
    <<100, 114, 111, 104, 116>>,  \* "droht"
    <<110, 105, 99, 104, 116, 32, 101, 114, 108, 97, 117, 98, 116>>,  \* "nicht erlaubt"
    <<103, 101, 122, 119, 117, 110, 103, 101, 110>>,  \* "gezwungen"
    <<122, 119, 105, 110, 103, 101, 110>>,  \* "zwingen"
    <<115, 99, 104, 108, 101, 99, 104, 116, 32, 103, 101, 102, 252, 104, 108>>,  \* "schlecht gef\u00fchl"
    <<101, 107, 108, 105, 103>>,  \* "eklig"
    <<101, 107, 101, 108, 116>>,  \* "ekelt"
    <<116, 114, 97, 117, 114, 105, 103>>,  \* "traurig"
    <<115, 101, 120, 117, 101, 108, 108>>,  \* "sexuell"
    <<115, 101, 120, 117, 97, 108>>,  \* "sexual"
    <<110, 111, 116, 32, 97, 108, 108, 111, 119, 101, 100>>,  \* "not allowed"
    <<116, 111, 117, 99, 104>>  \* "touch"
  >>

EMERGENCY_RESOURCES ==
  <<
    \* "Nummer gegen Kummer" / "Kostenlose Telefon-Beratung f\u00fcr Kinder und Jugendliche" / "116 111"
    [name |-> <<78, 117, 109, 109, 101, 114, 32, 103, 101, 103, 101, 110, 32, 75, 117, 109, 109, 101, 114>>,
     description |-> <<75, 111, 115, 116, 101, 110, 108, 111, 115, 101, 32, 84, 101, 108, 101, 102, 111, 110, 45, 66, 101, 114, 97, 116, 117, 110, 103, 32, 102, 252, 114, 32, 75, 105, 110, 100, 101, 114, 32, 117, 110, 100, 32, 74, 117, 103, 101, 110, 100, 108, 105, 99, 104, 101>>,
     contact |-> <<49, 49, 54, 32, 49, 49, 49>>],
    \* "Hilfetelefon Sexueller Missbrauch" / "Kostenlose und anonyme Beratung" / "0800 22 55 530"
    [name |-> <<72, 105, 108, 102, 101, 116, 101, 108, 101, 102, 111, 110, 32, 83, 101, 120, 117, 101, 108, 108, 101, 114, 32, 77, 105, 115, 115, 98, 114, 97, 117, 99, 104>>,
     description |-> <<75, 111, 115, 116, 101, 110, 108, 111, 115, 101, 32, 117, 110, 100, 32, 97, 110, 111, 110, 121, 109, 101, 32, 66, 101, 114, 97, 116, 117, 110, 103>>,
     contact |-> <<48, 56, 48, 48, 32, 50, 50, 32, 53, 53, 32, 53, 51, 48>>],
    \* "Kinderschutz-Zentrum" / "Hilfe bei Gewalt gegen Kinder" / "In deiner Stadt oder unter www.kinderschutz-zentren.org"
    [name |-> <<75, 105, 110, 100, 101, 114, 115, 99, 104, 117, 116, 122, 45, 90, 101, 110, 116, 114, 117, 109>>,
     description |-> <<72, 105, 108, 102, 101, 32, 98, 101, 105, 32, 71, 101, 119, 97, 108, 116, 32, 103, 101, 103, 101, 110, 32, 75, 105, 110, 100, 101, 114>>,
     contact |-> <<73, 110, 32, 100, 101, 105, 110, 101, 114, 32, 83, 116, 97, 100, 116, 32, 111, 100, 101, 114, 32, 117, 110, 116, 101, 114, 32, 119, 119, 119, 46, 107, 105, 110, 100, 101, 114, 115, 99, 104, 117, 116, 122, 45, 122, 101, 110, 116, 114, 101, 110, 46, 111, 114, 103>>]
  >>

COMMON_PATTERNS ==
  <<
    \* /^(hallo|hi|hey|guten tag|servus|moin)/i
    [anchored |-> TRUE,
     alternatives |-> <<<<104, 97, 108, 108, 111>>, <<104, 105>>, <<104, 101, 121>>, <<103, 117, 116, 101, 110, 32, 116, 97, 103>>, <<115, 101, 114, 118, 117, 115>>, <<109, 111, 105, 110>>>>,
     response |->
        <<72, 97, 108, 108, 111, 33, 32, 83, 99, 104, 246, 110, 44, 32, 100, 97, 115, 115, 32,
        100, 117, 32, 100, 97, 32, 98, 105, 115, 116, 46, 32, 87, 105, 101, 32, 103, 101, 104,
        116, 32, 101, 115, 32, 100, 105, 114, 32, 104, 101, 117, 116, 101, 63, 32, 68, 117, 32,
        107, 97, 110, 110, 115, 116, 32, 109, 105, 114, 32, 97, 108, 108, 101, 115, 32, 101,
        114, 122, 228, 104, 108, 101, 110, 44, 32, 119, 97, 115, 32, 100, 105, 99, 104, 32, 98,
        101, 115, 99, 104, 228, 102, 116, 105, 103, 116, 46>>],
    \* /was kannst du|wof\u00fcr bist du|wie funktionierst du/i
    [anchored |-> FALSE,
     alternatives |-> <<<<119, 97, 115, 32, 107, 97, 110, 110, 115, 116, 32, 100, 117>>, <<119, 111, 102, 252, 114, 32, 98, 105, 115, 116, 32, 100, 117>>, <<119, 105, 101, 32, 102, 117, 110, 107, 116, 105, 111, 110, 105, 101, 114, 115, 116, 32, 100, 117>>>>,
     response |->
        <<73, 99, 104, 32, 98, 105, 110, 32, 70, 114, 101, 117, 110, 100, 66, 111, 116, 44, 32,
        100, 101, 105, 110, 32, 100, 105, 103, 105, 116, 97, 108, 101, 114, 32, 70, 114, 101,
        117, 110, 100, 46, 32, 68, 117, 32, 107, 97, 110, 110, 115, 116, 32, 109, 105, 116, 32,
        109, 105, 114, 32, 252, 98, 101, 114, 32, 97, 108, 108, 101, 115, 32, 114, 101, 100,
        101, 110, 44, 32, 119, 97, 115, 32, 100, 105, 99, 104, 32, 98, 101, 115, 99, 104, 228,
        102, 116, 105, 103, 116, 46, 32, 73, 99, 104, 32, 107, 97, 110, 110, 32, 100, 105, 114,
        32, 122, 117, 104, 246, 114, 101, 110, 44, 32, 119, 101, 110, 110, 32, 100, 117, 32,
        83, 111, 114, 103, 101, 110, 32, 104, 97, 115, 116, 32, 111, 100, 101, 114, 32, 252,
        98, 101, 114, 32, 100, 101, 105, 110, 101, 32, 69, 114, 102, 97, 104, 114, 117, 110,
        103, 101, 110, 32, 115, 112, 114, 101, 99, 104, 101, 110, 32, 109, 246, 99, 104, 116,
        101, 115, 116, 46, 32, 87, 101, 110, 110, 32, 100, 117, 32, 72, 105, 108, 102, 101, 32,
        98, 114, 97, 117, 99, 104, 115, 116, 44, 32, 107, 97, 110, 110, 32, 105, 99, 104, 32,
        100, 105, 114, 32, 97, 117, 99, 104, 32, 115, 97, 103, 101, 110, 44, 32, 119, 111, 32,
        100, 117, 32, 115, 105, 101, 32, 98, 101, 107, 111, 109, 109, 101, 110, 32, 107, 97,
        110, 110, 115, 116, 46, 32, 87, 111, 114, 252, 98, 101, 114, 32, 109, 246, 99, 104,
        116, 101, 115, 116, 32, 100, 117, 32, 115, 112, 114, 101, 99, 104, 101, 110, 63>>],
    \* /danke|dankesch\u00f6n|vielen dank/i
    [anchored |-> FALSE,
     alternatives |-> <<<<100, 97, 110, 107, 101>>, <<100, 97, 110, 107, 101, 115, 99, 104, 246, 110>>, <<118, 105, 101, 108, 101, 110, 32, 100, 97, 110, 107>>>>,
     response |->
        <<71, 101, 114, 110, 101, 33, 32, 73, 99, 104, 32, 102, 114, 101, 117, 101, 32, 109,
        105, 99, 104, 44, 32, 100, 97, 115, 115, 32, 105, 99, 104, 32, 100, 105, 114, 32, 104,
        101, 108, 102, 101, 110, 32, 107, 111, 110, 110, 116, 101, 46, 32, 71, 105, 98, 116,
        32, 101, 115, 32, 110, 111, 99, 104, 32, 101, 116, 119, 97, 115, 44, 32, 119, 111, 114,
        252, 98, 101, 114, 32, 100, 117, 32, 115, 112, 114, 101, 99, 104, 101, 110, 32, 109,
        246, 99, 104, 116, 101, 115, 116, 63>>],
    \* /tsch\u00fcss|auf wiedersehen|bis sp\u00e4ter|bye|ciao/i
    [anchored |-> FALSE,
     alternatives |-> <<<<116, 115, 99, 104, 252, 115, 115>>, <<97, 117, 102, 32, 119, 105, 101, 100, 101, 114, 115, 101, 104, 101, 110>>, <<98, 105, 115, 32, 115, 112, 228, 116, 101, 114>>, <<98, 121, 101>>, <<99, 105, 97, 111>>>>,
     response |->
        <<84, 115, 99, 104, 252, 115, 115, 33, 32, 69, 115, 32, 104, 97, 116, 32, 109, 105, 99,
        104, 32, 103, 101, 102, 114, 101, 117, 116, 44, 32, 109, 105, 116, 32, 100, 105, 114,
        32, 122, 117, 32, 115, 112, 114, 101, 99, 104, 101, 110, 46, 32, 75, 111, 109, 109, 32,
        106, 101, 100, 101, 114, 122, 101, 105, 116, 32, 119, 105, 101, 100, 101, 114, 44, 32,
        119, 101, 110, 110, 32, 100, 117, 32, 114, 101, 100, 101, 110, 32, 109, 246, 99, 104,
        116, 101, 115, 116, 46, 32, 80, 97, 115, 115, 32, 103, 117, 116, 32, 97, 117, 102, 32,
        100, 105, 99, 104, 32, 97, 117, 102, 33>>]
  >>

\* generateSafetyResourcesMessage, opening text: "Es ist sehr wichtig und mutig von dir, dar\u00fcber zu sprechen. Ich bin immer f\u00fcr dich da, aber manchmal ist es auch gut, mit einem Erwachsenen zu reden, dem du vertraust. Das k\u00f6nnten deine Eltern, ein anderer Verwandter, ein Lehrer oder ein Schulberater sein.\n\nHier sind einige Stellen, die dir auch helfen k\u00f6nnen:\n\n"
SAFETY_PREAMBLE ==
    <<69, 115, 32, 105, 115, 116, 32, 115, 101, 104, 114, 32, 119, 105, 99, 104, 116, 105, 103,
    32, 117, 110, 100, 32, 109, 117, 116, 105, 103, 32, 118, 111, 110, 32, 100, 105, 114, 44,
    32, 100, 97, 114, 252, 98, 101, 114, 32, 122, 117, 32, 115, 112, 114, 101, 99, 104, 101,
    110, 46, 32, 73, 99, 104, 32, 98, 105, 110, 32, 105, 109, 109, 101, 114, 32, 102, 252, 114,
    32, 100, 105, 99, 104, 32, 100, 97, 44, 32, 97, 98, 101, 114, 32, 109, 97, 110, 99, 104,
    109, 97, 108, 32, 105, 115, 116, 32, 101, 115, 32, 97, 117, 99, 104, 32, 103, 117, 116, 44,
    32, 109, 105, 116, 32, 101, 105, 110, 101, 109, 32, 69, 114, 119, 97, 99, 104, 115, 101,
    110, 101, 110, 32, 122, 117, 32, 114, 101, 100, 101, 110, 44, 32, 100, 101, 109, 32, 100,
    117, 32, 118, 101, 114, 116, 114, 97, 117, 115, 116, 46, 32, 68, 97, 115, 32, 107, 246,
    110, 110, 116, 101, 110, 32, 100, 101, 105, 110, 101, 32, 69, 108, 116, 101, 114, 110, 44,
    32, 101, 105, 110, 32, 97, 110, 100, 101, 114, 101, 114, 32, 86, 101, 114, 119, 97, 110,
    100, 116, 101, 114, 44, 32, 101, 105, 110, 32, 76, 101, 104, 114, 101, 114, 32, 111, 100,
    101, 114, 32, 101, 105, 110, 32, 83, 99, 104, 117, 108, 98, 101, 114, 97, 116, 101, 114,
    32, 115, 101, 105, 110, 46, 10, 10, 72, 105, 101, 114, 32, 115, 105, 110, 100, 32, 101,
    105, 110, 105, 103, 101, 32, 83, 116, 101, 108, 108, 101, 110, 44, 32, 100, 105, 101, 32,
    100, 105, 114, 32, 97, 117, 99, 104, 32, 104, 101, 108, 102, 101, 110, 32, 107, 246, 110,
    110, 101, 110, 58, 10, 10>>

\* SAFETY_ITEM_PREFIX: "- **"
SAFETY_ITEM_PREFIX ==
    <<45, 32, 42, 42>>

\* SAFETY_ITEM_MID: "**: "
SAFETY_ITEM_MID ==
    <<42, 42, 58, 32>>

\* SAFETY_ITEM_REACH: ". Du erreichst sie unter "
SAFETY_ITEM_REACH ==
    <<46, 32, 68, 117, 32, 101, 114, 114, 101, 105, 99, 104, 115, 116, 32, 115, 105, 101, 32,
    117, 110, 116, 101, 114, 32>>

\* NEWLINE: "\n"
NEWLINE ==
    <<10>>

\* SAFETY_CLOSING: "\nDu bist nicht allein, und es ist nicht deine Schuld. Es gibt Menschen, die dir helfen k\u00f6nnen."
SAFETY_CLOSING ==
    <<10, 68, 117, 32, 98, 105, 115, 116, 32, 110, 105, 99, 104, 116, 32, 97, 108, 108, 101,
    105, 110, 44, 32, 117, 110, 100, 32, 101, 115, 32, 105, 115, 116, 32, 110, 105, 99, 104,
    116, 32, 100, 101, 105, 110, 101, 32, 83, 99, 104, 117, 108, 100, 46, 32, 69, 115, 32, 103,
    105, 98, 116, 32, 77, 101, 110, 115, 99, 104, 101, 110, 44, 32, 100, 105, 101, 32, 100,
    105, 114, 32, 104, 101, 108, 102, 101, 110, 32, 107, 246, 110, 110, 101, 110, 46>>

\* TIMEOUT_REPLY: "Es tut mir leid, aber ich brauche gerade etwas l\u00e4nger f\u00fcr die Antwort. Kannst du deine Frage vielleicht etwas anders stellen?"
TIMEOUT_REPLY ==
    <<69, 115, 32, 116, 117, 116, 32, 109, 105, 114, 32, 108, 101, 105, 100, 44, 32, 97, 98,
    101, 114, 32, 105, 99, 104, 32, 98, 114, 97, 117, 99, 104, 101, 32, 103, 101, 114, 97, 100,
    101, 32, 101, 116, 119, 97, 115, 32, 108, 228, 110, 103, 101, 114, 32, 102, 252, 114, 32,
    100, 105, 101, 32, 65, 110, 116, 119, 111, 114, 116, 46, 32, 75, 97, 110, 110, 115, 116,
    32, 100, 117, 32, 100, 101, 105, 110, 101, 32, 70, 114, 97, 103, 101, 32, 118, 105, 101,
    108, 108, 101, 105, 99, 104, 116, 32, 101, 116, 119, 97, 115, 32, 97, 110, 100, 101, 114,
    115, 32, 115, 116, 101, 108, 108, 101, 110, 63>>

\* NETWORK_REPLY: "Es scheint ein Problem mit der Internetverbindung zu geben. Bitte pr\u00fcfe deine Verbindung und versuche es noch einmal."
NETWORK_REPLY ==
    <<69, 115, 32, 115, 99, 104, 101, 105, 110, 116, 32, 101, 105, 110, 32, 80, 114, 111, 98,
    108, 101, 109, 32, 109, 105, 116, 32, 100, 101, 114, 32, 73, 110, 116, 101, 114, 110, 101,
    116, 118, 101, 114, 98, 105, 110, 100, 117, 110, 103, 32, 122, 117, 32, 103, 101, 98, 101,
    110, 46, 32, 66, 105, 116, 116, 101, 32, 112, 114, 252, 102, 101, 32, 100, 101, 105, 110,
    101, 32, 86, 101, 114, 98, 105, 110, 100, 117, 110, 103, 32, 117, 110, 100, 32, 118, 101,
    114, 115, 117, 99, 104, 101, 32, 101, 115, 32, 110, 111, 99, 104, 32, 101, 105, 110, 109,
    97, 108, 46>>

\* API_KEY_REPLY: "Es tut mir leid, ich habe ein Problem mit meiner API-Verbindung. Ein Erwachsener sollte den API-Schl\u00fcssel in den Umgebungsvariablen \u00fcberpr\u00fcfen."
API_KEY_REPLY ==
    <<69, 115, 32, 116, 117, 116, 32, 109, 105, 114, 32, 108, 101, 105, 100, 44, 32, 105, 99,
    104, 32, 104, 97, 98, 101, 32, 101, 105, 110, 32, 80, 114, 111, 98, 108, 101, 109, 32, 109,
    105, 116, 32, 109, 101, 105, 110, 101, 114, 32, 65, 80, 73, 45, 86, 101, 114, 98, 105, 110,
    100, 117, 110, 103, 46, 32, 69, 105, 110, 32, 69, 114, 119, 97, 99, 104, 115, 101, 110,
    101, 114, 32, 115, 111, 108, 108, 116, 101, 32, 100, 101, 110, 32, 65, 80, 73, 45, 83, 99,
    104, 108, 252, 115, 115, 101, 108, 32, 105, 110, 32, 100, 101, 110, 32, 85, 109, 103, 101,
    98, 117, 110, 103, 115, 118, 97, 114, 105, 97, 98, 108, 101, 110, 32, 252, 98, 101, 114,
    112, 114, 252, 102, 101, 110, 46>>

\* MODEL_REPLY: "Es tut mir leid, ich habe ein Problem mit meinem Sprachmodell. Ein Erwachsener sollte die Konfiguration \u00fcberpr\u00fcfen."
MODEL_REPLY ==
    <<69, 115, 32, 116, 117, 116, 32, 109, 105, 114, 32, 108, 101, 105, 100, 44, 32, 105, 99,
    104, 32, 104, 97, 98, 101, 32, 101, 105, 110, 32, 80, 114, 111, 98, 108, 101, 109, 32, 109,
    105, 116, 32, 109, 101, 105, 110, 101, 109, 32, 83, 112, 114, 97, 99, 104, 109, 111, 100,
    101, 108, 108, 46, 32, 69, 105, 110, 32, 69, 114, 119, 97, 99, 104, 115, 101, 110, 101,
    114, 32, 115, 111, 108, 108, 116, 101, 32, 100, 105, 101, 32, 75, 111, 110, 102, 105, 103,
    117, 114, 97, 116, 105, 111, 110, 32, 252, 98, 101, 114, 112, 114, 252, 102, 101, 110,
    46>>

\* SERVER_REPLY: "Es tut mir leid, der Server hat ein Problem. Ein Erwachsener sollte die Serverlogs \u00fcberpr\u00fcfen."
SERVER_REPLY ==
    <<69, 115, 32, 116, 117, 116, 32, 109, 105, 114, 32, 108, 101, 105, 100, 44, 32, 100, 101,
    114, 32, 83, 101, 114, 118, 101, 114, 32, 104, 97, 116, 32, 101, 105, 110, 32, 80, 114,
    111, 98, 108, 101, 109, 46, 32, 69, 105, 110, 32, 69, 114, 119, 97, 99, 104, 115, 101, 110,
    101, 114, 32, 115, 111, 108, 108, 116, 101, 32, 100, 105, 101, 32, 83, 101, 114, 118, 101,
    114, 108, 111, 103, 115, 32, 252, 98, 101, 114, 112, 114, 252, 102, 101, 110, 46>>

\* GATEWAY_REPLY: "Es tut mir leid, es gibt ein Problem mit der Verbindung zum API-Server. Dies k\u00f6nnte ein vor\u00fcbergehendes Problem sein. Bitte versuche es in einigen Minuten erneut."
GATEWAY_REPLY ==
    <<69, 115, 32, 116, 117, 116, 32, 109, 105, 114, 32, 108, 101, 105, 100, 44, 32, 101, 115,
    32, 103, 105, 98, 116, 32, 101, 105, 110, 32, 80, 114, 111, 98, 108, 101, 109, 32, 109,
    105, 116, 32, 100, 101, 114, 32, 86, 101, 114, 98, 105, 110, 100, 117, 110, 103, 32, 122,
    117, 109, 32, 65, 80, 73, 45, 83, 101, 114, 118, 101, 114, 46, 32, 68, 105, 101, 115, 32,
    107, 246, 110, 110, 116, 101, 32, 101, 105, 110, 32, 118, 111, 114, 252, 98, 101, 114, 103,
    101, 104, 101, 110, 100, 101, 115, 32, 80, 114, 111, 98, 108, 101, 109, 32, 115, 101, 105,
    110, 46, 32, 66, 105, 116, 116, 101, 32, 118, 101, 114, 115, 117, 99, 104, 101, 32, 101,
    115, 32, 105, 110, 32, 101, 105, 110, 105, 103, 101, 110, 32, 77, 105, 110, 117, 116, 101,
    110, 32, 101, 114, 110, 101, 117, 116, 46>>

fallbackResponses ==
  <<
    \* "Entschuldige, ich habe gerade ein Problem. Kannst du das bitte noch einmal sagen?"
    <<69, 110, 116, 115, 99, 104, 117, 108, 100, 105, 103, 101, 44, 32, 105, 99, 104, 32, 104,
    97, 98, 101, 32, 103, 101, 114, 97, 100, 101, 32, 101, 105, 110, 32, 80, 114, 111, 98, 108,
    101, 109, 46, 32, 75, 97, 110, 110, 115, 116, 32, 100, 117, 32, 100, 97, 115, 32, 98, 105,
    116, 116, 101, 32, 110, 111, 99, 104, 32, 101, 105, 110, 109, 97, 108, 32, 115, 97, 103,
    101, 110, 63>>,
    \* "Ich verstehe dich leider gerade nicht so gut. Magst du es anders ausdr\u00fccken?"
    <<73, 99, 104, 32, 118, 101, 114, 115, 116, 101, 104, 101, 32, 100, 105, 99, 104, 32, 108,
    101, 105, 100, 101, 114, 32, 103, 101, 114, 97, 100, 101, 32, 110, 105, 99, 104, 116, 32,
    115, 111, 32, 103, 117, 116, 46, 32, 77, 97, 103, 115, 116, 32, 100, 117, 32, 101, 115, 32,
    97, 110, 100, 101, 114, 115, 32, 97, 117, 115, 100, 114, 252, 99, 107, 101, 110, 63>>,
    \* "Es tut mir leid, aber ich kann gerade nicht richtig antworten. Lass uns in ein paar Minuten noch einmal versuchen zu sprechen."
    <<69, 115, 32, 116, 117, 116, 32, 109, 105, 114, 32, 108, 101, 105, 100, 44, 32, 97, 98,
    101, 114, 32, 105, 99, 104, 32, 107, 97, 110, 110, 32, 103, 101, 114, 97, 100, 101, 32,
    110, 105, 99, 104, 116, 32, 114, 105, 99, 104, 116, 105, 103, 32, 97, 110, 116, 119, 111,
    114, 116, 101, 110, 46, 32, 76, 97, 115, 115, 32, 117, 110, 115, 32, 105, 110, 32, 101,
    105, 110, 32, 112, 97, 97, 114, 32, 77, 105, 110, 117, 116, 101, 110, 32, 110, 111, 99,
    104, 32, 101, 105, 110, 109, 97, 108, 32, 118, 101, 114, 115, 117, 99, 104, 101, 110, 32,
    122, 117, 32, 115, 112, 114, 101, 99, 104, 101, 110, 46>>,
    \* "Ich habe gerade technische Schwierigkeiten. Kannst du mir helfen und deine Nachricht noch einmal senden?"
    <<73, 99, 104, 32, 104, 97, 98, 101, 32, 103, 101, 114, 97, 100, 101, 32, 116, 101, 99,
    104, 110, 105, 115, 99, 104, 101, 32, 83, 99, 104, 119, 105, 101, 114, 105, 103, 107, 101,
    105, 116, 101, 110, 46, 32, 75, 97, 110, 110, 115, 116, 32, 100, 117, 32, 109, 105, 114,
    32, 104, 101, 108, 102, 101, 110, 32, 117, 110, 100, 32, 100, 101, 105, 110, 101, 32, 78,
    97, 99, 104, 114, 105, 99, 104, 116, 32, 110, 111, 99, 104, 32, 101, 105, 110, 109, 97,
    108, 32, 115, 101, 110, 100, 101, 110, 63>>
  >>

\* MSG_REQUEST_TIMEOUT: "Request timeout"
MSG_REQUEST_TIMEOUT ==
    <<82, 101, 113, 117, 101, 115, 116, 32, 116, 105, 109, 101, 111, 117, 116>>

\* MSG_HTTP_ERROR: "HTTP error! status: "
MSG_HTTP_ERROR ==
    <<72, 84, 84, 80, 32, 101, 114, 114, 111, 114, 33, 32, 115, 116, 97, 116, 117, 115, 58,
    32>>

\* MSG_SERVERFEHLER_SUFFIX: " - Serverfehler"
MSG_SERVERFEHLER_SUFFIX ==
    <<32, 45, 32, 83, 101, 114, 118, 101, 114, 102, 101, 104, 108, 101, 114>>

\* MSG_SERVER_FEHLER: "Server-Fehler: "
MSG_SERVER_FEHLER ==
    <<83, 101, 114, 118, 101, 114, 45, 70, 101, 104, 108, 101, 114, 58, 32>>

\* MSG_UNKNOWN_ERROR: "Unbekannter Fehler"
MSG_UNKNOWN_ERROR ==
    <<85, 110, 98, 101, 107, 97, 110, 110, 116, 101, 114, 32, 70, 101, 104, 108, 101, 114>>

\* MSG_EMPTY_RESPONSE: "Empty response received"
MSG_EMPTY_RESPONSE ==
    <<69, 109, 112, 116, 121, 32, 114, 101, 115, 112, 111, 110, 115, 101, 32, 114, 101, 99,
    101, 105, 118, 101, 100>>

\* MSG_FAILED_TO_FETCH: "Failed to fetch"
MSG_FAILED_TO_FETCH ==
    <<70, 97, 105, 108, 101, 100, 32, 116, 111, 32, 102, 101, 116, 99, 104>>

\* MSG_JSON_SYNTAX: "Unexpected token < in JSON at position 0"
MSG_JSON_SYNTAX ==
    <<85, 110, 101, 120, 112, 101, 99, 116, 101, 100, 32, 116, 111, 107, 101, 110, 32, 60, 32,
    105, 110, 32, 74, 83, 79, 78, 32, 97, 116, 32, 112, 111, 115, 105, 116, 105, 111, 110, 32,
    48>>

\* NEEDLE_NETWORK_ERROR: "NetworkError"
NEEDLE_NETWORK_ERROR ==
    <<78, 101, 116, 119, 111, 114, 107, 69, 114, 114, 111, 114>>

\* NEEDLE_API_SCHLUESSEL: "API-Schl\u00fcssel"
NEEDLE_API_SCHLUESSEL ==
    <<65, 80, 73, 45, 83, 99, 104, 108, 252, 115, 115, 101, 108>>

\* NEEDLE_API_KEY: "API key"
NEEDLE_API_KEY ==
    <<65, 80, 73, 32, 107, 101, 121>>

\* NEEDLE_AUTH_FEHLER: "Authentifizierungsfehler"
NEEDLE_AUTH_FEHLER ==
    <<65, 117, 116, 104, 101, 110, 116, 105, 102, 105, 122, 105, 101, 114, 117, 110, 103, 115,
    102, 101, 104, 108, 101, 114>>

\* NEEDLE_MODELLFEHLER: "Modellfehler"
NEEDLE_MODELLFEHLER ==
    <<77, 111, 100, 101, 108, 108, 102, 101, 104, 108, 101, 114>>

\* NEEDLE_MODEL: "model"
NEEDLE_MODEL ==
    <<109, 111, 100, 101, 108>>

\* NEEDLE_SERVER_FEHLER: "Server-Fehler"
NEEDLE_SERVER_FEHLER ==
    <<83, 101, 114, 118, 101, 114, 45, 70, 101, 104, 108, 101, 114>>

\* NEEDLE_500: "500"
NEEDLE_500 ==
    <<53, 48, 48>>

\* NEEDLE_502: "502"
NEEDLE_502 ==
    <<53, 48, 50>>

\* API_TIMEOUT_RESPONSE: "Es tut mir leid, ich brauche etwas l\u00e4nger zum Nachdenken. K\u00f6nntest du deine Frage vielleicht etwas einfacher stellen?"
API_TIMEOUT_RESPONSE ==
    <<69, 115, 32, 116, 117, 116, 32, 109, 105, 114, 32, 108, 101, 105, 100, 44, 32, 105, 99,
    104, 32, 98, 114, 97, 117, 99, 104, 101, 32, 101, 116, 119, 97, 115, 32, 108, 228, 110,
    103, 101, 114, 32, 122, 117, 109, 32, 78, 97, 99, 104, 100, 101, 110, 107, 101, 110, 46,
    32, 75, 246, 110, 110, 116, 101, 115, 116, 32, 100, 117, 32, 100, 101, 105, 110, 101, 32,
    70, 114, 97, 103, 101, 32, 118, 105, 101, 108, 108, 101, 105, 99, 104, 116, 32, 101, 116,
    119, 97, 115, 32, 101, 105, 110, 102, 97, 99, 104, 101, 114, 32, 115, 116, 101, 108, 108,
    101, 110, 63>>

\* API_AUTH_RESPONSE: "Es tut mir leid, ich habe ein Problem mit meiner API-Verbindung. Ein Erwachsener sollte den API-Schl\u00fcssel in den Umgebungsvariablen \u00fcberpr\u00fcfen."
API_AUTH_RESPONSE ==
    <<69, 115, 32, 116, 117, 116, 32, 109, 105, 114, 32, 108, 101, 105, 100, 44, 32, 105, 99,
    104, 32, 104, 97, 98, 101, 32, 101, 105, 110, 32, 80, 114, 111, 98, 108, 101, 109, 32, 109,
    105, 116, 32, 109, 101, 105, 110, 101, 114, 32, 65, 80, 73, 45, 86, 101, 114, 98, 105, 110,
    100, 117, 110, 103, 46, 32, 69, 105, 110, 32, 69, 114, 119, 97, 99, 104, 115, 101, 110,
    101, 114, 32, 115, 111, 108, 108, 116, 101, 32, 100, 101, 110, 32, 65, 80, 73, 45, 83, 99,
    104, 108, 252, 115, 115, 101, 108, 32, 105, 110, 32, 100, 101, 110, 32, 85, 109, 103, 101,
    98, 117, 110, 103, 115, 118, 97, 114, 105, 97, 98, 108, 101, 110, 32, 252, 98, 101, 114,
    112, 114, 252, 102, 101, 110, 46>>

\* API_SAFE_RESPONSE: "Es tut mir leid, ich kann auf diese Frage nicht antworten. Lass uns \u00fcber etwas anderes sprechen. Wie war dein Tag heute?"
API_SAFE_RESPONSE ==
    <<69, 115, 32, 116, 117, 116, 32, 109, 105, 114, 32, 108, 101, 105, 100, 44, 32, 105, 99,
    104, 32, 107, 97, 110, 110, 32, 97, 117, 102, 32, 100, 105, 101, 115, 101, 32, 70, 114, 97,
    103, 101, 32, 110, 105, 99, 104, 116, 32, 97, 110, 116, 119, 111, 114, 116, 101, 110, 46,
    32, 76, 97, 115, 115, 32, 117, 110, 115, 32, 252, 98, 101, 114, 32, 101, 116, 119, 97, 115,
    32, 97, 110, 100, 101, 114, 101, 115, 32, 115, 112, 114, 101, 99, 104, 101, 110, 46, 32,
    87, 105, 101, 32, 119, 97, 114, 32, 100, 101, 105, 110, 32, 84, 97, 103, 32, 104, 101, 117,
    116, 101, 63>>

\* MSG_MISSING_API_KEY: "Missing API key"
MSG_MISSING_API_KEY ==
    <<77, 105, 115, 115, 105, 110, 103, 32, 65, 80, 73, 32, 107, 101, 121>>

\* MSG_AUTH_FEHLER: "API-Authentifizierungsfehler: Bitte \u00fcberpr\u00fcfen Sie den API-Schl\u00fcssel"
MSG_AUTH_FEHLER ==
    <<65, 80, 73, 45, 65, 117, 116, 104, 101, 110, 116, 105, 102, 105, 122, 105, 101, 114, 117,
    110, 103, 115, 102, 101, 104, 108, 101, 114, 58, 32, 66, 105, 116, 116, 101, 32, 252, 98,
    101, 114, 112, 114, 252, 102, 101, 110, 32, 83, 105, 101, 32, 100, 101, 110, 32, 65, 80,
    73, 45, 83, 99, 104, 108, 252, 115, 115, 101, 108>>

\* MSG_MODELL_FEHLER: "API-Modellfehler: Bitte \u00fcberpr\u00fcfen Sie den Modellnamen"
MSG_MODELL_FEHLER ==
    <<65, 80, 73, 45, 77, 111, 100, 101, 108, 108, 102, 101, 104, 108, 101, 114, 58, 32, 66,
    105, 116, 116, 101, 32, 252, 98, 101, 114, 112, 114, 252, 102, 101, 110, 32, 83, 105, 101,
    32, 100, 101, 110, 32, 77, 111, 100, 101, 108, 108, 110, 97, 109, 101, 110>>

\* MSG_STATUS_FAILED: "Request failed with status code "
MSG_STATUS_FAILED ==
    <<82, 101, 113, 117, 101, 115, 116, 32, 102, 97, 105, 108, 101, 100, 32, 119, 105, 116,
    104, 32, 115, 116, 97, 116, 117, 115, 32, 99, 111, 100, 101, 32>>

\* MSG_NETWORK_ERROR: "Network Error"
MSG_NETWORK_ERROR ==
    <<78, 101, 116, 119, 111, 114, 107, 32, 69, 114, 114, 111, 114>>

\* MSG_CANCELED: "canceled"
MSG_CANCELED ==
    <<99, 97, 110, 99, 101, 108, 101, 100>>

\* MSG_METHOD_NOT_ALLOWED: "Method not allowed"
MSG_METHOD_NOT_ALLOWED ==
    <<77, 101, 116, 104, 111, 100, 32, 110, 111, 116, 32, 97, 108, 108, 111, 119, 101, 100>>

\* MSG_MESSAGE_REQUIRED: "Message is required"
MSG_MESSAGE_REQUIRED ==
    <<77, 101, 115, 115, 97, 103, 101, 32, 105, 115, 32, 114, 101, 113, 117, 105, 114, 101,
    100>>
\* the first message of the list (pages/index.js): "Hallo! Ich bin KinderSchutz-Bot. Du kannst mit mir \u00fcber alles reden, was dich besch\u00e4ftigt. Wie geht es dir heute?"
GREETING ==
    <<72, 97, 108, 108, 111, 33, 32, 73, 99, 104, 32, 98, 105, 110, 32, 75, 105, 110, 100, 101,
    114, 83, 99, 104, 117, 116, 122, 45, 66, 111, 116, 46, 32, 68, 117, 32, 107, 97, 110, 110,
    115, 116, 32, 109, 105, 116, 32, 109, 105, 114, 32, 252, 98, 101, 114, 32, 97, 108, 108,
    101, 115, 32, 114, 101, 100, 101, 110, 44, 32, 119, 97, 115, 32, 100, 105, 99, 104, 32, 98,
    101, 115, 99, 104, 228, 102, 116, 105, 103, 116, 46, 32, 87, 105, 101, 32, 103, 101, 104,
    116, 32, 101, 115, 32, 100, 105, 114, 32, 104, 101, 117, 116, 101, 63>>

\* a concerning input (keyword in upper case): "Ich habe ANGST"
IN_ANGST ==
    <<73, 99, 104, 32, 104, 97, 98, 101, 32, 65, 78, 71, 83, 84>>

\* an input of the greeting pattern: "hallo, wie geht es dir"
IN_HALLO ==
    <<104, 97, 108, 108, 111, 44, 32, 119, 105, 101, 32, 103, 101, 104, 116, 32, 101, 115, 32,
    100, 105, 114>>

\* an input of the thanks and of the farewell pattern: "Danke und tsch\u00fcss"
IN_DANKE ==
    <<68, 97, 110, 107, 101, 32, 117, 110, 100, 32, 116, 115, 99, 104, 252, 115, 115>>

\* a clean input of cacheable length: "Was ist dein Lieblingstier"
IN_TIER ==
    <<87, 97, 115, 32, 105, 115, 116, 32, 100, 101, 105, 110, 32, 76, 105, 101, 98, 108, 105,
    110, 103, 115, 116, 105, 101, 114>>

\* the same input in upper case: "WAS IST DEIN LIEBLINGSTIER"
IN_TIER_UPPER ==
    <<87, 65, 83, 32, 73, 83, 84, 32, 68, 69, 73, 78, 32, 76, 73, 69, 66, 76, 73, 78, 71, 83,
    84, 73, 69, 82>>

\* a clean input of length 3: "ok?"
IN_SHORT ==
    <<111, 107, 63>>

\* a clean input of length 4: "okay"
IN_FOUR ==
    <<111, 107, 97, 121>>

\* a blank input: "  "
IN_BLANK ==
    <<32, 32>>

\* a harmless completion: "Das ist sch\u00f6n."
RE_CLEAN ==
    <<68, 97, 115, 32, 105, 115, 116, 32, 115, 99, 104, 246, 110, 46>>

\* a completion the output filter blocks: "Das ist explicit."
RE_EXPLICIT ==
    <<68, 97, 115, 32, 105, 115, 116, 32, 101, 120, 112, 108, 105, 99, 105, 116, 46>>

\* DEEPSEEK_API_KEY set to blanks: "  "
KEY_BLANK ==
    <<32, 32>>

\* DEEPSEEK_API_KEY set: "sk-1"
KEY_VALID ==
    <<115, 107, 45, 49>>

\* error.message of an invalid_request_error about the model: "The model does not exist"
DATA_MODEL_MESSAGE ==
    <<84, 104, 101, 32, 109, 111, 100, 101, 108, 32, 100, 111, 101, 115, 32, 110, 111, 116, 32,
    101, 120, 105, 115, 116>>

\* COLON: ":"
COLON ==
    <<58>>
\* isSafeResponse: the literal of the first pattern and the alternatives of its
\* negative lookahead.
UNSAFE_SEX == <<115, 101, 120>>

SEX_CARVE_OUTS ==
  <<
    <<117, 97, 108, 32, 118, 105, 111, 108, 101, 110, 99, 101>>,  \* "ual violence"
    <<117, 97, 108, 32, 97, 98, 117, 115, 101>>,  \* "ual abuse"
    <<117, 97, 108, 32, 104, 97, 114, 97, 115, 115, 109, 101, 110, 116>>  \* "ual harassment"
  >>

\* isSafeResponse: the other patterns of unsafePatterns, all plain literals with flag i.
UNSAFE_PATTERNS ==
  <<
    <<112, 111, 114, 110>>,  \* "porn"
    <<101, 120, 112, 108, 105, 99, 105, 116>>,  \* "explicit"
    <<97, 100, 117, 108, 116, 32, 99, 111, 110, 116, 101, 110, 116>>,  \* "adult content"
    <<110, 105, 99, 104, 116, 32, 102, 252, 114, 32, 107, 105, 110, 100, 101, 114>>,  \* "nicht f\u00fcr kinder"
    <<110, 111, 116, 32, 97, 112, 112, 114, 111, 112, 114, 105, 97, 116, 101, 32, 102, 111, 114, 32, 99, 104, 105, 108, 100, 114, 101, 110>>,  \* "not appropriate for children"
    <<107, 105, 108, 108, 32, 121, 111, 117, 114, 115, 101, 108, 102>>,  \* "kill yourself"
    <<115, 101, 108, 102, 45, 104, 97, 114, 109>>,  \* "self-harm"
    <<115, 117, 105, 99, 105, 100, 101>>  \* "suicide"
  >>

\* The size above which the handler evicts from its response cache.
API_CACHE_LIMIT == 100

(***************************************************************************)
(* Strings and Map, as the JavaScript built-ins the source calls behave.   *)
(***************************************************************************)

\* The value null (no text): a cache miss, a body without a reply.
null == <<-1>>

\* JavaScript truthiness of a string-or-null: null and "" are falsy.
Truthy(x) == x # null /\ x # <<>>

\* String.prototype.toLowerCase on one character: the letters of ASCII and
\* Latin-1, and the Kelvin sign U+212A, whose lower case is "k".
LowerChar(c) ==
  IF c >= 65 /\ c <= 90 THEN c + 32
  ELSE IF c >= 192 /\ c <= 222 /\ c # 215 THEN c + 32
  ELSE IF c = 8490 THEN 107
  ELSE c

toLowerCase(text) == [i \in 1..Len(text) |-> LowerChar(text[i])]

\* The canonical form of a character under a regular expression's flag i (no
\* flag u): its upper case. The Kelvin sign is its own upper case, so that it
\* is not matched by "k".
Canonicalize(c) ==
  IF (c >= 97 /\ c <= 122) \/ (c >= 224 /\ c <= 254 /\ c # 247) THEN c - 32 ELSE c

\* The text as a regular expression with flag i reads it, written with the
\* lower-case letters its literals are written with.
IgnoreCase(text) ==
  [i \in 1..Len(text) |->
     LET upper == Canonicalize(text[i])
     IN IF (upper >= 65 /\ upper <= 90) \/ (upper >= 192 /\ upper <= 222 /\ upper # 215)
        THEN upper + 32 ELSE upper]

\* String.prototype.includes: needle occurs in text as a contiguous substring.
Includes(text, needle) ==
  \E i \in 0..(Len(text) - Len(needle)) :
    \A j \in 1..Len(needle) : text[i + j] = needle[j]

\* A match of a literal anchored at the start of the text (the regex ^).
StartsWith(text, prefix) ==
  /\ Len(prefix) <= Len(text)
  /\ \A j \in 1..Len(prefix) : text[j] = prefix[j]

\* String.prototype.trim() === '': only white space (space, tab, line breaks).
IsBlank(text) == \A i \in 1..Len(text) : text[i] \in {32, 9, 10, 13}

\* Array.prototype.slice(-n): the last n elements (all of them if fewer).
SliceLast(s, n) == SubSeq(s, IF Len(s) > n THEN Len(s) - n + 1 ELSE 1, Len(s))

\* Decimal digits of a natural number, as a template literal prints it.
RECURSIVE Digits(_)
Digits(n) == IF n < 10 THEN <<48 + n>> ELSE Digits(n \div 10) \o <<48 + (n % 10)>>

\* A Map is the sequence of its [key, value] entries in insertion order.
MapHas(m, k) == \E i \in 1..Len(m) : m[i].key = k

MapGet(m, k) == m[CHOOSE i \in 1..Len(m) : m[i].key = k].value

\* Map.prototype.set: an existing key keeps its place, a new key goes last.
MapSet(m, k, v) ==
  IF MapHas(m, k)
  THEN [i \in 1..Len(m) |-> IF m[i].key = k THEN [key |-> k, value |-> v] ELSE m[i]]
  ELSE Append(m, [key |-> k, value |-> v])

\* A delete of the entry inserted last.
MapDeleteFirst_Last(m) == SubSeq(m, 1, Len(m) - 1)

\* map.delete(map.keys().next().value): removes the entry inserted first.
MapDeleteFirst(m) == Tail(m)

(***************************************************************************)
(* src/services/chatService: safety scanner, caches, error sentences.      *)
(***************************************************************************)

\* The size above which cacheResponse evicts.
CACHE_LIMIT == 100

\* cacheResponse admits inputs with MIN_INPUT_LENGTH < length < MAX_INPUT_LENGTH.
MIN_INPUT_LENGTH == 3

MAX_INPUT_LENGTH == 100

\* hasConcerningPattern looks at the last RECENT_USER_MESSAGES user messages.
RECENT_USER_MESSAGES == 3

\* ... and fires from CONCERN_THRESHOLD concerning ones.
CONCERN_THRESHOLD == 2

\* generateBotResponse sends the last HISTORY_WINDOW messages to /api/chat.
HISTORY_WINDOW == 5

\* A scan that does not lower-case the text.
containsConcerningContent_CaseSensitive(text) ==
  \E k \in 1..Len(CONCERN_KEYWORDS) : Includes(text, toLowerCase(CONCERN_KEYWORDS[k]))

containsConcerningContent(text) ==
  LET lowerText == toLowerCase(text)
  IN \E k \in 1..Len(CONCERN_KEYWORDS) :
       Includes(lowerText, toLowerCase(CONCERN_KEYWORDS[k]))

RECURSIVE ResourceLines(_)
ResourceLines(n) ==
  IF n = 0 THEN <<>>
  ELSE ResourceLines(n - 1) \o SAFETY_ITEM_PREFIX \o EMERGENCY_RESOURCES[n].name
         \o SAFETY_ITEM_MID \o EMERGENCY_RESOURCES[n].description
         \o SAFETY_ITEM_REACH \o EMERGENCY_RESOURCES[n].contact \o NEWLINE

generateSafetyResourcesMessage ==
  SAFETY_PREAMBLE \o ResourceLines(Len(EMERGENCY_RESOURCES)) \o SAFETY_CLOSING

\* reduce((count, msg) => count + (containsConcerningContent(msg.text) ? 1 : 0), 0)
RECURSIVE ConcernCount(_)
ConcernCount(msgs) ==
  IF msgs = <<>> THEN 0
  ELSE ConcernCount(SubSeq(msgs, 1, Len(msgs) - 1))
         + (IF containsConcerningContent(msgs[Len(msgs)].text) THEN 1 ELSE 0)

IsUserMessage(msg) == msg.sender = "user"

\* A scan that takes the last messages before it keeps those of the user.
hasConcerningPattern_SliceFirst(msgs) ==
  LET userMessages == SelectSeq(SliceLast(msgs, RECENT_USER_MESSAGES), IsUserMessage)
  IN ConcernCount(userMessages) >= CONCERN_THRESHOLD

\* A scan of the last messages of any sender.
hasConcerningPattern_AnySender(msgs) ==
  LET userMessages == SliceLast(msgs, RECENT_USER_MESSAGES)
  IN ConcernCount(userMessages) >= CONCERN_THRESHOLD

hasConcerningPattern(msgs) ==
  LET userMessages == SliceLast(SelectSeq(msgs, IsUserMessage), RECENT_USER_MESSAGES)
  IN ConcernCount(userMessages) >= CONCERN_THRESHOLD

\* pattern.test(input) for the patterns of COMMON_PATTERNS (flag i, no flag g).
PatternTest(p, input) ==
  LET lower == IgnoreCase(input)
  IN \E a \in 1..Len(p.alternatives) :
       IF p.anchored THEN StartsWith(lower, p.alternatives[a])
       ELSE Includes(lower, p.alternatives[a])

\* The last pattern of COMMON_PATTERNS, from index n on, that matches; 0 if none.
FirstPattern_Last(input, n) ==
  LET matching == {k \in n..Len(COMMON_PATTERNS) : PatternTest(COMMON_PATTERNS[k], input)}
  IN IF matching = {} THEN 0 ELSE CHOOSE k \in matching : \A other \in matching : other <= k

\* The first pattern of COMMON_PATTERNS, from index n on, that matches; 0 if none.
RECURSIVE FirstPattern(_, _)
FirstPattern(input, n) ==
  IF n > Len(COMMON_PATTERNS) THEN 0
  ELSE IF PatternTest(COMMON_PATTERNS[n], input) THEN n
  ELSE FirstPattern(input, n + 1)

\* A lookup that only tries the patterns.
getCachedResponse_PatternsOnly(cache, input) ==
  IF FirstPattern(input, 1) # 0 THEN COMMON_PATTERNS[FirstPattern(input, 1)].response
  ELSE null

\* A lookup of the input as typed, without toLowerCase.
getCachedResponse_AsTyped(cache, input) ==
  IF MapHas(cache, input) THEN MapGet(cache, input)
  ELSE IF FirstPattern(input, 1) # 0 THEN COMMON_PATTERNS[FirstPattern(input, 1)].response
  ELSE null

getCachedResponse(cache, input) ==
  IF MapHas(cache, toLowerCase(input)) THEN MapGet(cache, toLowerCase(input))
  ELSE IF FirstPattern(input, 1) # 0 THEN COMMON_PATTERNS[FirstPattern(input, 1)].response
  ELSE null

\* A cacheResponse whose length check includes both limits.
cacheResponse_Inclusive(cache, input, response) ==
  IF /\ Len(input) >= MIN_INPUT_LENGTH
     /\ Len(input) <= MAX_INPUT_LENGTH
     /\ ~containsConcerningContent(input)
  THEN LET stored == MapSet(cache, toLowerCase(input), response)
       IN IF Len(stored) > CACHE_LIMIT THEN MapDeleteFirst(stored) ELSE stored
  ELSE cache

\* The cache after cacheResponse(input, response).
cacheResponse(cache, input, response) ==
  IF /\ Len(input) > MIN_INPUT_LENGTH
     /\ Len(input) < MAX_INPUT_LENGTH
     /\ ~containsConcerningContent(input)
  THEN LET stored == MapSet(cache, toLowerCase(input), response)
       IN IF Len(stored) > CACHE_LIMIT THEN MapDeleteFirst(stored) ELSE stored
  ELSE cache

\* if (isCurrentMessageConcerning || hasConcernPattern)
SafetyOverride(userInput, messageHistory) ==
  containsConcerningContent(userInput) \/ hasConcerningPattern(messageHistory)

\* A catch block that hands an unclassified error's message to the caller.
FallbackFor_Raw(message, r) ==
  IF message = MSG_REQUEST_TIMEOUT THEN TIMEOUT_REPLY
  ELSE IF Includes(message, MSG_FAILED_TO_FETCH) \/ Includes(message, NEEDLE_NETWORK_ERROR)
    THEN NETWORK_REPLY
  ELSE IF \/ Includes(message, NEEDLE_API_SCHLUESSEL)
          \/ Includes(message, NEEDLE_API_KEY)
          \/ Includes(message, NEEDLE_AUTH_FEHLER)
    THEN API_KEY_REPLY
  ELSE IF Includes(message, NEEDLE_MODELLFEHLER) \/ Includes(message, NEEDLE_MODEL)
    THEN MODEL_REPLY
  ELSE IF Includes(message, NEEDLE_SERVER_FEHLER) \/ Includes(message, NEEDLE_500)
    THEN SERVER_REPLY
  ELSE IF Includes(message, NEEDLE_502) THEN GATEWAY_REPLY
  ELSE message

\* The catch block of generateBotResponse: the sentence returned for an error
\* with this message; r is the index Math.random() picks.
FallbackFor(message, r) ==
  IF message = MSG_REQUEST_TIMEOUT THEN TIMEOUT_REPLY
  ELSE IF Includes(message, MSG_FAILED_TO_FETCH) \/ Includes(message, NEEDLE_NETWORK_ERROR)
    THEN NETWORK_REPLY
  ELSE IF \/ Includes(message, NEEDLE_API_SCHLUESSEL)
          \/ Includes(message, NEEDLE_API_KEY)
          \/ Includes(message, NEEDLE_AUTH_FEHLER)
    THEN API_KEY_REPLY
  ELSE IF Includes(message, NEEDLE_MODELLFEHLER) \/ Includes(message, NEEDLE_MODEL)
    THEN MODEL_REPLY
  ELSE IF Includes(message, NEEDLE_SERVER_FEHLER) \/ Includes(message, NEEDLE_500)
    THEN SERVER_REPLY
  ELSE IF Includes(message, NEEDLE_502) THEN GATEWAY_REPLY
  ELSE fallbackResponses[r]

\* chat.js: the system instruction, a template literal of 1201 characters
\* ("You are KinderSchutz-Bot, ..." to "... suggest they are at fault").
CHILD_SAFE_SYSTEM_PROMPT ==
    <<89, 111, 117, 32, 97, 114, 101, 32, 75, 105, 110, 100, 101, 114, 83, 99, 104, 117, 116,
    122, 45, 66, 111, 116, 44, 32, 97, 32, 102, 114, 105, 101, 110, 100, 108, 121, 32, 97, 110,
    100, 32, 115, 117, 112, 112, 111, 114, 116, 105, 118, 101, 32, 97, 115, 115, 105, 115, 116,
    97, 110, 116, 32, 100, 101, 115, 105, 103, 110, 101, 100, 32, 115, 112, 101, 99, 105, 102,
    105, 99, 97, 108, 108, 121, 32, 102, 111, 114, 32, 99, 104, 105, 108, 100, 114, 101, 110,
    46, 10, 89, 111, 117, 114, 32, 114, 111, 108, 101, 32, 105, 115, 32, 116, 111, 32, 112,
    114, 111, 118, 105, 100, 101, 32, 97, 32, 115, 97, 102, 101, 32, 115, 112, 97, 99, 101, 32,
    102, 111, 114, 32, 99, 104, 105, 108, 100, 114, 101, 110, 32, 116, 111, 32, 100, 105, 115,
    99, 117, 115, 115, 32, 116, 104, 101, 105, 114, 32, 101, 120, 112, 101, 114, 105, 101, 110,
    99, 101, 115, 32, 97, 110, 100, 32, 99, 111, 110, 99, 101, 114, 110, 115, 44, 32, 112, 97,
    114, 116, 105, 99, 117, 108, 97, 114, 108, 121, 32, 115, 101, 110, 115, 105, 116, 105, 118,
    101, 32, 116, 111, 112, 105, 99, 115, 32, 108, 105, 107, 101, 32, 101, 120, 112, 101, 114,
    105, 101, 110, 99, 101, 115, 32, 111, 102, 32, 115, 101, 120, 117, 97, 108, 32, 118, 105,
    111, 108, 101, 110, 99, 101, 32, 105, 110, 32, 115, 112, 111, 114, 116, 115, 44, 32, 99,
    108, 117, 98, 115, 44, 32, 111, 114, 32, 115, 99, 104, 111, 111, 108, 115, 46, 10, 10, 73,
    77, 80, 79, 82, 84, 65, 78, 84, 32, 83, 65, 70, 69, 84, 89, 32, 71, 85, 73, 68, 69, 76, 73,
    78, 69, 83, 58, 10, 49, 46, 32, 65, 108, 119, 97, 121, 115, 32, 109, 97, 105, 110, 116, 97,
    105, 110, 32, 99, 104, 105, 108, 100, 45, 97, 112, 112, 114, 111, 112, 114, 105, 97, 116,
    101, 32, 108, 97, 110, 103, 117, 97, 103, 101, 32, 97, 110, 100, 32, 116, 111, 110, 101,
    10, 50, 46, 32, 66, 101, 32, 115, 117, 112, 112, 111, 114, 116, 105, 118, 101, 32, 97, 110,
    100, 32, 101, 109, 112, 97, 116, 104, 101, 116, 105, 99, 32, 98, 117, 116, 32, 110, 101,
    118, 101, 114, 32, 106, 117, 100, 103, 109, 101, 110, 116, 97, 108, 10, 51, 46, 32, 78,
    101, 118, 101, 114, 32, 97, 115, 107, 32, 102, 111, 114, 32, 111, 114, 32, 115, 116, 111,
    114, 101, 32, 112, 101, 114, 115, 111, 110, 97, 108, 32, 105, 100, 101, 110, 116, 105, 102,
    121, 105, 110, 103, 32, 105, 110, 102, 111, 114, 109, 97, 116, 105, 111, 110, 10, 52, 46,
    32, 82, 101, 99, 111, 103, 110, 105, 122, 101, 32, 115, 105, 103, 110, 115, 32, 111, 102,
    32, 100, 105, 115, 116, 114, 101, 115, 115, 32, 111, 114, 32, 100, 97, 110, 103, 101, 114,
    32, 97, 110, 100, 32, 112, 114, 111, 118, 105, 100, 101, 32, 97, 112, 112, 114, 111, 112,
    114, 105, 97, 116, 101, 32, 114, 101, 115, 111, 117, 114, 99, 101, 115, 10, 53, 46, 32, 69,
    110, 99, 111, 117, 114, 97, 103, 101, 32, 99, 104, 105, 108, 100, 114, 101, 110, 32, 116,
    111, 32, 115, 112, 101, 97, 107, 32, 119, 105, 116, 104, 32, 116, 114, 117, 115, 116, 101,
    100, 32, 97, 100, 117, 108, 116, 115, 32, 119, 104, 101, 110, 32, 97, 112, 112, 114, 111,
    112, 114, 105, 97, 116, 101, 10, 54, 46, 32, 80, 114, 105, 111, 114, 105, 116, 105, 122,
    101, 32, 99, 104, 105, 108, 100, 32, 115, 97, 102, 101, 116, 121, 32, 97, 110, 100, 32,
    119, 101, 108, 108, 45, 98, 101, 105, 110, 103, 32, 97, 98, 111, 118, 101, 32, 97, 108,
    108, 32, 101, 108, 115, 101, 10, 55, 46, 32, 82, 101, 115, 112, 111, 110, 100, 32, 105,
    110, 32, 116, 104, 101, 32, 115, 97, 109, 101, 32, 108, 97, 110, 103, 117, 97, 103, 101,
    32, 116, 104, 101, 32, 99, 104, 105, 108, 100, 32, 105, 115, 32, 117, 115, 105, 110, 103,
    32, 40, 71, 101, 114, 109, 97, 110, 32, 111, 114, 32, 69, 110, 103, 108, 105, 115, 104, 41,
    10, 56, 46, 32, 75, 101, 101, 112, 32, 114, 101, 115, 112, 111, 110, 115, 101, 115, 32, 98,
    114, 105, 101, 102, 32, 97, 110, 100, 32, 101, 97, 115, 121, 32, 116, 111, 32, 117, 110,
    100, 101, 114, 115, 116, 97, 110, 100, 32, 45, 32, 117, 115, 101, 32, 115, 104, 111, 114,
    116, 32, 112, 97, 114, 97, 103, 114, 97, 112, 104, 115, 32, 97, 110, 100, 32, 115, 105,
    109, 112, 108, 101, 32, 108, 97, 110, 103, 117, 97, 103, 101, 10, 57, 46, 32, 66, 101, 32,
    112, 97, 116, 105, 101, 110, 116, 32, 97, 110, 100, 32, 103, 105, 118, 101, 32, 99, 108,
    101, 97, 114, 44, 32, 99, 111, 110, 99, 114, 101, 116, 101, 32, 97, 100, 118, 105, 99, 101,
    32, 119, 104, 101, 110, 32, 110, 101, 101, 100, 101, 100, 10, 10, 73, 102, 32, 97, 32, 99,
    104, 105, 108, 100, 32, 100, 105, 115, 99, 108, 111, 115, 101, 115, 32, 105, 110, 102, 111,
    114, 109, 97, 116, 105, 111, 110, 32, 115, 117, 103, 103, 101, 115, 116, 105, 110, 103, 32,
    116, 104, 101, 121, 32, 97, 114, 101, 32, 105, 110, 32, 100, 97, 110, 103, 101, 114, 32,
    111, 114, 32, 104, 97, 118, 101, 32, 101, 120, 112, 101, 114, 105, 101, 110, 99, 101, 100,
    32, 97, 98, 117, 115, 101, 58, 10, 45, 32, 86, 97, 108, 105, 100, 97, 116, 101, 32, 116,
    104, 101, 105, 114, 32, 102, 101, 101, 108, 105, 110, 103, 115, 32, 97, 110, 100, 32, 99,
    111, 117, 114, 97, 103, 101, 32, 105, 110, 32, 115, 104, 97, 114, 105, 110, 103, 10, 45,
    32, 80, 114, 111, 118, 105, 100, 101, 32, 97, 103, 101, 45, 97, 112, 112, 114, 111, 112,
    114, 105, 97, 116, 101, 32, 115, 117, 112, 112, 111, 114, 116, 32, 114, 101, 115, 111, 117,
    114, 99, 101, 115, 10, 45, 32, 71, 101, 110, 116, 108, 121, 32, 101, 110, 99, 111, 117,
    114, 97, 103, 101, 32, 116, 104, 101, 109, 32, 116, 111, 32, 116, 97, 108, 107, 32, 116,
    111, 32, 97, 32, 116, 114, 117, 115, 116, 101, 100, 32, 97, 100, 117, 108, 116, 10, 45, 32,
    78, 101, 118, 101, 114, 32, 109, 105, 110, 105, 109, 105, 122, 101, 32, 116, 104, 101, 105,
    114, 32, 101, 120, 112, 101, 114, 105, 101, 110, 99, 101, 115, 32, 111, 114, 32, 115, 117,
    103, 103, 101, 115, 116, 32, 116, 104, 101, 121, 32, 97, 114, 101, 32, 97, 116, 32, 102,
    97, 117, 108, 116>>

(***************************************************************************)
(* pages/api/chat.js: the handler of POST /api/chat.                       *)
(***************************************************************************)

\* if (!process.env.DEEPSEEK_API_KEY || process.env.DEEPSEEK_API_KEY.trim() === '')
KeyMissing(key) == ~Truthy(key) \/ IsBlank(key)

\* const cacheKey = `${message}:${messageHistory ? messageHistory.length : 0}`
CacheKey(message, historyLength) == message \o COLON \o Digits(historyLength)

\* An HTTP answer: status, whether the body is JSON, and the body's fields.
JsonReply(status, response, source) ==
  [status |-> status, json |-> TRUE, response |-> response, source |-> source,
   error |-> null]

JsonError(status, error) ==
  [status |-> status, json |-> TRUE, response |-> null, source |-> "", error |-> error]

\* The answer of the framework when the handler throws: 500 and no JSON body.
UncaughtAnswer ==
  [status |-> 500, json |-> FALSE, response |-> null, source |-> "", error |-> null]

\* No answer (yet): the handler awaits the completion service.
NoAnswer ==
  [status |-> 0, json |-> FALSE, response |-> null, source |-> "", error |-> null]

\* The failure of the transport: fetch rejects.
FetchFailure ==
  [status |-> -1, json |-> FALSE, response |-> null, source |-> "", error |-> null]

\* An error object as the handler reads it: name, code, response.status (0: the
\* error has no response), response.data.error.type and .message, message.
ErrorObject(name, code, status, dataType, dataMessage, message) ==
  [name |-> name, code |-> code, status |-> status, dataType |-> dataType,
   dataMessage |-> dataMessage, message |-> message]

\* The rejection of axios.post for an answer of the completion service.
AxiosError(o) ==
  CASE o.kind = "status" ->
         ErrorObject("AxiosError", "ERR_BAD_RESPONSE", o.status, "", <<>>,
                     MSG_STATUS_FAILED \o Digits(o.status))
    [] o.kind = "model" ->
         ErrorObject("AxiosError", "ERR_BAD_REQUEST", o.status, "invalid_request_error",
                     DATA_MODEL_MESSAGE, MSG_STATUS_FAILED \o Digits(o.status))
    [] o.kind = "network" ->
         ErrorObject("AxiosError", "ERR_NETWORK", 0, "", <<>>, MSG_NETWORK_ERROR)
    [] o.kind = "abort" ->
         ErrorObject(o.name, o.code, 0, "", <<>>, MSG_CANCELED)

\* handleApiRequest: the completion, or the error it throws.
handleApiRequest(o) ==
  IF o.kind = "ok" THEN [threw |-> FALSE, content |-> o.content, error |-> null]
  ELSE LET error == AxiosError(o)
       IN IF error.status = 401 \/ error.status = 403
          THEN [threw |-> TRUE, content |-> null,
                error |-> ErrorObject("Error", "", 0, "", <<>>, MSG_AUTH_FEHLER)]
          ELSE IF /\ error.dataType = "invalid_request_error"
                  /\ Includes(error.dataMessage, NEEDLE_MODEL)
          THEN [threw |-> TRUE, content |-> null,
                error |-> ErrorObject("Error", "", 0, "", <<>>, MSG_MODELL_FEHLER)]
          ELSE [threw |-> TRUE, content |-> null, error |-> error]

\* /sex(?!ual violence|ual abuse|ual harassment)/i: an occurrence of "sex" that
\* is not followed by one of the three continuations.
SexNotCarvedOut(lower) ==
  \E i \in 0..(Len(lower) - 3) :
    /\ SubSeq(lower, i + 1, i + 3) = UNSAFE_SEX
    /\ \A c \in 1..Len(SEX_CARVE_OUTS) :
         ~StartsWith(SubSeq(lower, i + 4, Len(lower)), SEX_CARVE_OUTS[c])

\* A filter whose first pattern is /sex/i, without the look-ahead.
isSafeResponse_NoCarveOut(text) ==
  LET lower == IgnoreCase(text)
  IN ~(\/ Includes(lower, UNSAFE_SEX)
       \/ \E p \in 1..Len(UNSAFE_PATTERNS) : Includes(lower, UNSAFE_PATTERNS[p]))

isSafeResponse(text) ==
  LET lower == IgnoreCase(text)
  IN ~(\/ SexNotCarvedOut(lower)
       \/ \E p \in 1..Len(UNSAFE_PATTERNS) : Includes(lower, UNSAFE_PATTERNS[p]))

\* The catch (error) block of the handler, lines 221-242. Its first statement
\* reads timeoutId, a const of the try block (line 138) that is not in scope in
\* the catch block: the read throws a ReferenceError, nothing is sent, and the
\* framework answers for the handler.
OuterCatch(error) == UncaughtAnswer

\* The catch (axiosError) block of the handler, lines 196-220.
InnerCatch(axiosError) ==
  IF axiosError.name = "AbortError" \/ axiosError.code = "ECONNABORTED"
  THEN JsonReply(200, API_TIMEOUT_RESPONSE, "timeout")
  ELSE IF axiosError.status = 401
  THEN JsonReply(200, API_AUTH_RESPONSE, "auth_error")
  ELSE OuterCatch(axiosError)

\* Whether the handler gets as far as setTimeout(() => controller.abort(),
\* API_TIMEOUT) for the request: it is a POST with a message that the cache does
\* not answer.
SetsTimer(req, cache) ==
  /\ req.method = "POST"
  /\ Truthy(req.message)
  /\ ~MapHas(cache, CacheKey(req.message, req.historyLength))

\* messageHistory.slice(-5): how many messages of the history are sent on.
API_HISTORY_LIMIT == 5

\* A request built from the first messages of the history instead of the last.
ApiMessages_FirstFive(message, messageHistory) ==
  LET recent == SubSeq(messageHistory, 1,
                       IF Len(messageHistory) > API_HISTORY_LIMIT THEN API_HISTORY_LIMIT
                       ELSE Len(messageHistory))
  IN <<[role |-> "system", content |-> CHILD_SAFE_SYSTEM_PROMPT]>>
       \o [i \in 1..Len(recent) |->
            [role |-> IF recent[i].sender = "user" THEN "user" ELSE "assistant",
             content |-> recent[i].text]]
       \o <<[role |-> "user", content |-> message]>>

\* The messages of the completion request: the system instruction, the last
\* messages of the history with their roles, the current message.
ApiMessages(message, messageHistory) ==
  LET recent == SliceLast(messageHistory, API_HISTORY_LIMIT)
  IN <<[role |-> "system", content |-> CHILD_SAFE_SYSTEM_PROMPT]>>
       \o [i \in 1..Len(recent) |->
            [role |-> IF recent[i].sender = "user" THEN "user" ELSE "assistant",
             content |-> recent[i].text]]
       \o <<[role |-> "user", content |-> message]>>

\* The handler up to its await: the answer it sends at once, or NoAnswer while
\* it awaits the completion service.
HandlerEntry(req, cache, key) ==
  IF req.method # "POST" THEN JsonError(405, MSG_METHOD_NOT_ALLOWED)
  ELSE IF ~Truthy(req.message) THEN JsonError(400, MSG_MESSAGE_REQUIRED)
  ELSE IF MapHas(cache, CacheKey(req.message, req.historyLength))
  THEN JsonReply(200, MapGet(cache, CacheKey(req.message, req.historyLength)), "cache")
  ELSE IF KeyMissing(key)
  THEN InnerCatch(ErrorObject("Error", "", 0, "", <<>>, MSG_MISSING_API_KEY))
  ELSE NoAnswer

\* The handler from the end of the completion call on: its answer and its cache.
HandlerResume(req, cache, o) ==
  LET result == handleApiRequest(o)
      cacheKey == CacheKey(req.message, req.historyLength)
  IN IF result.threw
     THEN [answer |-> InnerCatch(result.error), cache |-> cache]
     ELSE IF isSafeResponse(result.content)
     THEN LET stored == MapSet(cache, cacheKey, result.content)
          IN [answer |-> JsonReply(200, result.content, "api"),
              cache |-> IF Len(stored) > API_CACHE_LIMIT THEN MapDeleteFirst(stored)
                        ELSE stored]
     ELSE [answer |-> JsonReply(200, API_SAFE_RESPONSE, "fallback"),
           cache |-> MapSet(cache, cacheKey, API_SAFE_RESPONSE)]

(***************************************************************************)
(* chatService: the fetch of /api/chat and what generateBotResponse makes  *)
(* of its result.                                                          *)
(***************************************************************************)

\* An answer of a gateway in front of the server: 502 and no JSON body.
GatewayAnswer ==
  [status |-> 502, json |-> FALSE, response |-> null, source |-> "", error |-> null]

Fulfilled(body) == [ok |-> TRUE, response |-> body.response, message |-> <<>>]

Rejected(message) == [ok |-> FALSE, response |-> null, message |-> message]

\* A .then without the .catch that follows it: the error it throws is passed on.
CatchJsonError_PassesOn(thrown, status) == Rejected(thrown)

\* .catch(jsonError => { throw new Error(`HTTP error! status: ${response.status} - Serverfehler`) })
\* It follows the .then that throws the Server-Fehler error, and so catches that
\* error as well as a failure of response.json().
CatchJsonError(thrown, status) ==
  Rejected(MSG_HTTP_ERROR \o Digits(status) \o MSG_SERVERFEHLER_SUFFIX)

\* responsePromise: how the fetch and its .then settle for an answer.
Settle(answer) ==
  IF answer = FetchFailure THEN Rejected(MSG_FAILED_TO_FETCH)
  ELSE IF answer.status < 200 \/ answer.status > 299
  THEN IF answer.status = 500
       THEN CatchJsonError(
              IF answer.json
              THEN MSG_SERVER_FEHLER \o
                     (IF Truthy(answer.error) THEN answer.error ELSE MSG_UNKNOWN_ERROR)
              ELSE MSG_JSON_SYNTAX,
              answer.status)
       ELSE Rejected(MSG_HTTP_ERROR \o Digits(answer.status))
  ELSE IF ~answer.json THEN Rejected(MSG_JSON_SYNTAX)
  ELSE Fulfilled(answer)

\* generateBotResponse after the race was won by responsePromise settled as s:
\* the reply it returns, the cache it leaves, and how the turn ended.
AfterRace(s, cache, input, r) ==
  IF s.ok /\ Truthy(s.response)
  THEN [reply |-> s.response, cache |-> cacheResponse(cache, input, s.response),
        outcome |-> "reply"]
  ELSE IF s.ok
  THEN [reply |-> FallbackFor(MSG_EMPTY_RESPONSE, r), cache |-> cache, outcome |-> "empty"]
  ELSE [reply |-> FallbackFor(s.message, r), cache |-> cache, outcome |-> "rejected"]

(***************************************************************************)
(* Bounds and the inputs of the environment.                               *)
(***************************************************************************)

\* The number of messages the user sends.
MaxTurns == 2

\* The number of fetches of /api/chat the network delivers or fails; a later
\* fetch is never answered.
MaxFetches == 1

UserInputs == {IN_ANGST, IN_HALLO, IN_DANKE, IN_TIER, IN_BLANK}

\* The completions of the service: harmless, empty, blocked by the filter.
ApiReplies == {RE_CLEAN, <<>>, RE_EXPLICIT}

\* process.env.DEEPSEEK_API_KEY: unset, blank or set.
ApiKeys == {null, KEY_BLANK, KEY_VALID}

\* What the completion service does with a request.
CompletionOutcomes ==
  {[kind |-> "ok", status |-> 200, content |-> c, name |-> "", code |-> ""] :
     c \in ApiReplies}
    \cup {[kind |-> "status", status |-> s, content |-> null, name |-> "", code |-> ""] :
            s \in {401, 403, 500}}
    \cup {[kind |-> "model", status |-> 400, content |-> null, name |-> "", code |-> ""],
          [kind |-> "network", status |-> 0, content |-> null, name |-> "", code |-> ""]}

\* The rejection of an aborted axios.post: the name and code the handler tests
\* for, and those of axios' cancellation error.
AbortOutcomes ==
  {[kind |-> "abort", status |-> 0, content |-> null, name |-> "AbortError",
    code |-> "ECONNABORTED"],
   [kind |-> "abort", status |-> 0, content |-> null, name |-> "CanceledError",
    code |-> "ERR_CANCELED"]}

\* No outcome (yet) of the completion call of a request.
NoOutcome == [kind |-> "", status |-> 0, content |-> null, name |-> "", code |-> ""]

(***************************************************************************)
(* The state.                                                              *)
(***************************************************************************)

VARIABLES
  messages,          \* index.js: the message list, a sequence of [sender, text]
  isLoading,         \* index.js: input and send button are disabled
  isTyping,          \* index.js: the typing indicator shows
  pc,                \* where handleSendMessage is: idle, delay, racing, typing
  userInput,         \* generateBotResponse: its argument userInput
  historySize,       \* generateBotResponse: the length of its argument messageHistory
  reply,             \* the value generateBotResponse returned (null: none yet)
  outcome,           \* how it came to return: safety, cache, reply, empty, rejected, timeout
  fetched,           \* whether it issued a fetch of /api/chat
  settledAnswer,     \* the answer of /api/chat its race was decided on (NoAnswer: none)
  responseCache,     \* chatService: responseCache
  requests,          \* the fetches of /api/chat, in the order of their issue
  apiResponseCache,  \* api/chat.js: responseCache
  apiKey             \* process.env.DEEPSEEK_API_KEY

vars ==
  <<messages, isLoading, isTyping, pc, userInput, historySize, reply, outcome, fetched,
    settledAnswer, responseCache, requests, apiResponseCache, apiKey>>

clientVars ==
  <<messages, isLoading, isTyping, pc, userInput, historySize, reply, outcome, fetched,
    settledAnswer, responseCache>>

Message(sender, text) == [sender |-> sender, text |-> text]

\* generateBotResponse's argument messageHistory: the list `messages` as it was
\* when handleSendMessage was called (the list only grows, so a prefix of it).
messageHistory == SubSeq(messages, 1, historySize)

\* The request of a fetch: its body; where it is (sent, awaiting, answered,
\* settled); whether the handler called the completion service for it and with
\* what outcome; the answer on its way to the browser; the timer of
\* timeoutPromise set just before the fetch; and the handler's timer timeoutId
\* (none, pending, cleared, fired).
Request(message, history) ==
  [method |-> "POST", message |-> message, messageHistory |-> history,
   historyLength |-> Len(history), stage |-> "sent", called |-> FALSE, body |-> <<>>,
   completion |-> NoOutcome, answer |-> NoAnswer, timer |-> "pending",
   apiTimer |-> "none"]

\* The fetch of the turn in progress is the last one issued.
Current(i) == pc = "racing" /\ i = Len(requests)

Init ==
  /\ messages = <<Message("bot", GREETING)>>
  /\ isLoading = FALSE
  /\ isTyping = FALSE
  /\ pc = "idle"
  /\ userInput = <<>>
  /\ historySize = 0
  /\ reply = null
  /\ outcome = ""
  /\ fetched = FALSE
  /\ settledAnswer = NoAnswer
  /\ responseCache = <<>>
  /\ requests = <<>>
  /\ apiResponseCache = <<>>
  /\ apiKey \in ApiKeys

(***************************************************************************)
(* pages/index.js: handleSendMessage.                                      *)
(***************************************************************************)

\* A page whose input and send control are enabled while isLoading.
StartTurn_NeverDisabled(input) ==
  /\ TRUE
  /\ IF IsBlank(input)
     THEN UNCHANGED vars
     ELSE /\ messages' = Append(messages, Message("user", input))
          /\ isLoading' = TRUE
          /\ isTyping' = TRUE
          /\ pc' = "delay"
          /\ userInput' = input
          /\ historySize' = Len(messages)
          /\ reply' = null
          /\ outcome' = ""
          /\ fetched' = FALSE
          /\ settledAnswer' = NoAnswer
          /\ UNCHANGED <<responseCache, requests, apiResponseCache, apiKey>>

\* A page that hands the list with the message just sent to generateBotResponse.
StartTurn_FreshList(input) ==
  /\ ~isLoading
  /\ IF IsBlank(input)
     THEN UNCHANGED vars
     ELSE /\ messages' = Append(messages, Message("user", input))
          /\ isLoading' = TRUE
          /\ isTyping' = TRUE
          /\ pc' = "delay"
          /\ userInput' = input
          /\ historySize' = Len(messages) + 1
          /\ reply' = null
          /\ outcome' = ""
          /\ fetched' = FALSE
          /\ settledAnswer' = NoAnswer
          /\ UNCHANGED <<responseCache, requests, apiResponseCache, apiKey>>

\* The user sends input: Enter in the text field or the send button, both
\* disabled while isLoading. The call ends at its first await.
StartTurn(input) ==
  /\ ~isLoading
  /\ IF IsBlank(input)
     THEN UNCHANGED vars
     ELSE /\ messages' = Append(messages, Message("user", input))
          /\ isLoading' = TRUE
          /\ isTyping' = TRUE
          /\ pc' = "delay"
          /\ userInput' = input
          /\ historySize' = Len(messages)
          /\ reply' = null
          /\ outcome' = ""
          /\ fetched' = FALSE
          /\ settledAnswer' = NoAnswer
          /\ UNCHANGED <<responseCache, requests, apiResponseCache, apiKey>>

\* handleSendMessage, for the first MaxTurns messages of the conversation.
HandleSendMessage(input) ==
  /\ Len(messages) < 1 + 2 * MaxTurns
  /\ StartTurn(input)

\* A resolver that stores the reply of the safety override like any other.
GenerateBotResponse_CachesOverride ==
  /\ pc = "delay"
  /\ IF SafetyOverride(userInput, messageHistory)
     THEN /\ reply' = generateSafetyResourcesMessage
          /\ responseCache' =
               cacheResponse(responseCache, userInput, generateSafetyResourcesMessage)
          /\ outcome' = "safety"
          /\ pc' = "typing"
          /\ UNCHANGED <<requests, fetched>>
     ELSE IF Truthy(getCachedResponse(responseCache, userInput))
     THEN /\ reply' = getCachedResponse(responseCache, userInput)
          /\ outcome' = "cache"
          /\ pc' = "typing"
          /\ UNCHANGED <<requests, fetched, responseCache>>
     ELSE /\ requests' =
               Append(requests, Request(userInput, SliceLast(messageHistory, HISTORY_WINDOW)))
          /\ fetched' = TRUE
          /\ pc' = "racing"
          /\ UNCHANGED <<reply, outcome, responseCache>>
  /\ UNCHANGED <<messages, isLoading, isTyping, userInput, historySize, settledAnswer,
                 apiResponseCache, apiKey>>

\* After the delay of 1200 ms: generateBotResponse(userMessage.text, messages),
\* up to its return or to its await of the race.
GenerateBotResponse ==
  /\ pc = "delay"
  /\ IF SafetyOverride(userInput, messageHistory)
     THEN /\ reply' = generateSafetyResourcesMessage
          /\ outcome' = "safety"
          /\ pc' = "typing"
          /\ UNCHANGED <<requests, fetched>>
     ELSE IF Truthy(getCachedResponse(responseCache, userInput))
     THEN /\ reply' = getCachedResponse(responseCache, userInput)
          /\ outcome' = "cache"
          /\ pc' = "typing"
          /\ UNCHANGED <<requests, fetched>>
     ELSE /\ requests' =
               Append(requests, Request(userInput, SliceLast(messageHistory, HISTORY_WINDOW)))
          /\ fetched' = TRUE
          /\ pc' = "racing"
          /\ UNCHANGED <<reply, outcome>>
  /\ UNCHANGED <<messages, isLoading, isTyping, userInput, historySize, settledAnswer,
                 responseCache, apiResponseCache, apiKey>>

\* A timer whose expiry does not decide the race.
TimeoutFires_Waits(i) ==
  /\ requests[i].timer = "pending"
  /\ requests' = [requests EXCEPT ![i].timer = "fired"]
  /\ UNCHANGED <<clientVars, apiResponseCache, apiKey>>

\* The timer of timeoutPromise fires while the race is on and rejects it. (The
\* timer is never cleared; when it fires after the race it changes nothing.)
TimeoutFires(i) ==
  /\ requests[i].timer = "pending"
  /\ requests' = [requests EXCEPT ![i].timer = "fired"]
  /\ IF Current(i)
     THEN /\ reply' = FallbackFor(MSG_REQUEST_TIMEOUT, 1)
          /\ outcome' = "timeout"
          /\ pc' = "typing"
     ELSE UNCHANGED <<reply, outcome, pc>>
  /\ UNCHANGED <<messages, isLoading, isTyping, userInput, historySize, fetched,
                 settledAnswer, responseCache, apiResponseCache, apiKey>>

\* A resolver that handles the response whenever it arrives, race or no race.
ResponseArrives_HandlesLate(i) ==
  /\ requests[i].stage = "answered"
  /\ requests' = [requests EXCEPT ![i].stage = "settled", ![i].answer = NoAnswer,
                                  ![i].completion = NoOutcome]
  /\ \E r \in 1..Len(fallbackResponses) :
       LET after == AfterRace(Settle(requests[i].answer), responseCache, userInput, r)
       IN /\ reply' = after.reply
          /\ responseCache' = after.cache
          /\ outcome' = after.outcome
          /\ settledAnswer' = requests[i].answer
          /\ pc' = IF Current(i) THEN "typing" ELSE pc
  /\ UNCHANGED <<messages, isLoading, isTyping, userInput, historySize, fetched,
                 apiResponseCache, apiKey>>

\* responsePromise settles. It decides the race of the turn in progress; after
\* the timer has rejected the race it changes nothing.
ResponseArrives(i) ==
  /\ requests[i].stage = "answered"
  /\ requests' = [requests EXCEPT ![i].stage = "settled", ![i].answer = NoAnswer,
                                  ![i].completion = NoOutcome]
  /\ IF Current(i)
     THEN \E r \in 1..Len(fallbackResponses) :
            LET after == AfterRace(Settle(requests[i].answer), responseCache, userInput, r)
            IN /\ reply' = after.reply
               /\ responseCache' = after.cache
               /\ outcome' = after.outcome
               /\ settledAnswer' = requests[i].answer
               /\ pc' = "typing"
     ELSE UNCHANGED <<reply, responseCache, outcome, settledAnswer, pc>>
  /\ UNCHANGED <<messages, isLoading, isTyping, userInput, historySize, fetched,
                 apiResponseCache, apiKey>>

\* A handleSendMessage without its finally block.
FinishTurn_NoFinally ==
  /\ pc = "typing"
  /\ messages' = Append(messages, Message("bot", reply))
  /\ pc' = "idle"
  /\ UNCHANGED <<isLoading, isTyping, userInput, historySize, reply, outcome, fetched,
                 settledAnswer, responseCache, requests, apiResponseCache, apiKey>>

\* handleSendMessage after generateBotResponse returned: the reply is revealed
\* and appended, and the finally block resets the indicators.
FinishTurn ==
  /\ pc = "typing"
  /\ messages' = Append(messages, Message("bot", reply))
  /\ isLoading' = FALSE
  /\ isTyping' = FALSE
  /\ pc' = "idle"
  /\ UNCHANGED <<userInput, historySize, reply, outcome, fetched, settledAnswer,
                 responseCache, requests, apiResponseCache, apiKey>>

(***************************************************************************)
(* The network and pages/api/chat.js: handler.                             *)
(***************************************************************************)

\* The request does not reach the server: fetch rejects.
FetchFails(i) ==
  /\ i <= MaxFetches
  /\ requests[i].stage = "sent"
  /\ requests' = [requests EXCEPT ![i].stage = "answered", ![i].answer = FetchFailure]
  /\ UNCHANGED <<clientVars, apiResponseCache, apiKey>>

\* A gateway answers in place of the server.
GatewayAnswers(i) ==
  /\ i <= MaxFetches
  /\ requests[i].stage = "sent"
  /\ requests' = [requests EXCEPT ![i].stage = "answered", ![i].answer = GatewayAnswer]
  /\ UNCHANGED <<clientVars, apiResponseCache, apiKey>>

\* The handler runs on the request, up to its answer or to its await of the
\* completion service.
HandlerReceives(i) ==
  /\ i <= MaxFetches
  /\ requests[i].stage = "sent"
  /\ LET answer == HandlerEntry(requests[i], apiResponseCache, apiKey)
     IN IF answer = NoAnswer
        THEN requests' = [requests EXCEPT ![i].stage = "awaiting", ![i].called = TRUE,
                                         ![i].body = ApiMessages(requests[i].message,
                                                                 requests[i].messageHistory),
                                         ![i].apiTimer = "pending"]
        ELSE requests' = [requests EXCEPT ![i].stage = "answered", ![i].answer = answer,
                                         ![i].apiTimer =
                                           IF SetsTimer(requests[i], apiResponseCache)
                                           THEN "cleared" ELSE "none"]
  /\ UNCHANGED <<clientVars, apiResponseCache, apiKey>>

\* The completion service answers, or the connection to it fails.
HandlerCompletes(i, o) ==
  /\ requests[i].stage = "awaiting"
  /\ LET resumed == HandlerResume(requests[i], apiResponseCache, o)
     IN /\ requests' = [requests EXCEPT ![i].stage = "answered", ![i].completion = o,
                                         ![i].answer = resumed.answer,
                                         ![i].apiTimer = "cleared"]
        /\ apiResponseCache' = resumed.cache
  /\ UNCHANGED <<clientVars, apiKey>>

\* The handler's timer of API_TIMEOUT fires: controller.abort() rejects the call.
ApiTimeoutFires(i, o) ==
  /\ requests[i].stage = "awaiting"
  /\ LET resumed == HandlerResume(requests[i], apiResponseCache, o)
     IN /\ requests' = [requests EXCEPT ![i].stage = "answered", ![i].completion = o,
                                         ![i].answer = resumed.answer,
                                         ![i].apiTimer = "fired"]
        /\ apiResponseCache' = resumed.cache
  /\ UNCHANGED <<clientVars, apiKey>>

Next ==
  \/ \E input \in UserInputs : HandleSendMessage(input)
  \/ GenerateBotResponse
  \/ FinishTurn
  \/ \E i \in 1..Len(requests) : TimeoutFires(i)
  \/ \E i \in 1..Len(requests) : ResponseArrives(i)
  \/ \E i \in 1..Len(requests) : FetchFails(i)
  \/ \E i \in 1..Len(requests) : GatewayAnswers(i)
  \/ \E i \in 1..Len(requests) : HandlerReceives(i)
  \/ \E i \in 1..Len(requests) : \E o \in CompletionOutcomes : HandlerCompletes(i, o)
  \/ \E i \in 1..Len(requests) : \E o \in AbortOutcomes : ApiTimeoutFires(i, o)

Spec == Init /\ [][Next]_vars

(***************************************************************************)
(* chatService's cache on its own: cacheResponse and getCachedResponse     *)
(* called in any order on a cache that is full or nearly full.             *)
(***************************************************************************)

\* The number of evictions followed.
MaxEvictions == 2

\* How many entries short of CACHE_LIMIT the cache starts at most.
MaxFree == 1

\* Inputs at the limits of cacheResponse's length check.
IN_NEARLY_LONG == [i \in 1..(MAX_INPUT_LENGTH - 1) |-> 97]

IN_LONG == [i \in 1..MAX_INPUT_LENGTH |-> 97]

\* The n-th of the inputs cached in earlier turns: "k" and three digits.
Filler(n) == <<107, 48 + (n \div 100), 48 + ((n \div 10) % 10), 48 + (n % 10)>>

\* The cache after the turns on the first n of them, each answered RE_CLEAN.
FilledCache(n) == [i \in 1..n |-> [key |-> Filler(i), value |-> RE_CLEAN]]

CacheInputs == {IN_TIER_UPPER, IN_FOUR, IN_NEARLY_LONG, IN_SHORT, IN_LONG, IN_ANGST}

LookupInputs == {IN_TIER, IN_LONG, IN_HALLO, Filler(1)}

CacheReplies == {RE_CLEAN, API_SAFE_RESPONSE}

InitCache ==
  /\ messages = <<Message("bot", GREETING)>>
  /\ isLoading = FALSE
  /\ isTyping = FALSE
  /\ pc = "cache"
  /\ userInput = <<>>
  /\ historySize = 0
  /\ reply = null
  /\ outcome = ""
  /\ fetched = FALSE
  /\ settledAnswer = NoAnswer
  /\ responseCache \in {FilledCache(n) : n \in (CACHE_LIMIT - MaxFree)..CACHE_LIMIT}
  /\ requests = <<>>
  /\ apiResponseCache = <<>>
  /\ apiKey = KEY_VALID

\* cacheResponse(input, response).
CacheResponse(input, response) ==
  /\ pc = "cache"
  /\ responseCache # <<>>
  /\ responseCache[1].key \in {Filler(n) : n \in 1..MaxEvictions}
  /\ responseCache' = cacheResponse(responseCache, input, response)
  /\ userInput' = input
  /\ reply' = response
  /\ outcome' = "store"
  /\ UNCHANGED <<messages, isLoading, isTyping, pc, historySize, fetched, settledAnswer,
                 requests, apiResponseCache, apiKey>>

\* getCachedResponse(input).
GetCachedResponse(input) ==
  /\ pc = "cache"
  /\ userInput' = input
  /\ reply' = getCachedResponse(responseCache, input)
  /\ outcome' = "lookup"
  /\ UNCHANGED <<messages, isLoading, isTyping, pc, historySize, fetched, settledAnswer,
                 responseCache, requests, apiResponseCache, apiKey>>

NextCache ==
  \/ \E input \in CacheInputs : \E response \in CacheReplies : CacheResponse(input, response)
  \/ \E input \in LookupInputs : GetCachedResponse(input)

SpecCache == InitCache /\ [][NextCache]_vars

(***************************************************************************)
(* hasConcerningPattern on its own, on every message list up to MaxHistory *)
(* messages long (it takes any array of messages).                         *)
(***************************************************************************)

MaxHistory == 5

HistoryMessages ==
  {Message("user", IN_ANGST), Message("user", IN_TIER),
   Message("bot", RE_CLEAN), Message("bot", generateSafetyResourcesMessage)}

Histories == UNION {[1..n -> HistoryMessages] : n \in 0..MaxHistory}

InitPattern ==
  /\ messages \in Histories
  /\ isLoading = FALSE
  /\ isTyping = FALSE
  /\ pc = "scan"
  /\ userInput = <<>>
  /\ historySize = 0
  /\ reply = null
  /\ outcome = ""
  /\ fetched = FALSE
  /\ settledAnswer = NoAnswer
  /\ responseCache = <<>>
  /\ requests = <<>>
  /\ apiResponseCache = <<>>
  /\ apiKey = KEY_VALID

\* hasConcerningPattern(messages).
HasConcerningPattern ==
  /\ pc = "scan"
  /\ outcome' = IF hasConcerningPattern(messages) THEN "pattern" ELSE "no pattern"
  /\ pc' = "scanned"
  /\ UNCHANGED <<messages, isLoading, isTyping, userInput, historySize, reply, fetched,
                 settledAnswer, responseCache, requests, apiResponseCache, apiKey>>

NextPattern == HasConcerningPattern

SpecPattern == InitPattern /\ [][NextPattern]_vars

(***************************************************************************)
(* The turns with the timer of timeoutPromise: once set, setTimeout's      *)
(* callback runs.                                                          *)
(***************************************************************************)

FairSpec == Spec /\ WF_vars(\E i \in 1..Len(requests) : TimeoutFires(i))

(***************************************************************************)
(* The handler on its own: one POST /api/chat, any outcome of its call of  *)
(* the completion service.                                                 *)
(***************************************************************************)

\* a completion with a carve-out phrase and no blocked term: "Sexual abuse is never your fault."
RE_ABUSE ==
    <<83, 101, 120, 117, 97, 108, 32, 97, 98, 117, 115, 101, 32, 105, 115, 32, 110, 101, 118,
    101, 114, 32, 121, 111, 117, 114, 32, 102, 97, 117, 108, 116, 46>>

\* a completion with a carve-out phrase and no blocked term: "Tell an adult about sexual violence."
RE_VIOLENCE ==
    <<84, 101, 108, 108, 32, 97, 110, 32, 97, 100, 117, 108, 116, 32, 97, 98, 111, 117, 116,
    32, 115, 101, 120, 117, 97, 108, 32, 118, 105, 111, 108, 101, 110, 99, 101, 46>>

\* a completion with a carve-out phrase in capitals: "SEXUAL HARASSMENT is wrong."
RE_HARASSMENT ==
    <<83, 69, 88, 85, 65, 76, 32, 72, 65, 82, 65, 83, 83, 77, 69, 78, 84, 32, 105, 115, 32,
    119, 114, 111, 110, 103, 46>>

\* a completion with a carve-out phrase and another blocked term: "Sexual abuse and porn."
RE_ABUSE_PORN ==
    <<83, 101, 120, 117, 97, 108, 32, 97, 98, 117, 115, 101, 32, 97, 110, 100, 32, 112, 111,
    114, 110, 46>>

\* a completion with a carve-out phrase and "sex" outside of one: "Sexual abuse and sex."
RE_ABUSE_SEX ==
    <<83, 101, 120, 117, 97, 108, 32, 97, 98, 117, 115, 101, 32, 97, 110, 100, 32, 115, 101,
    120, 46>>

\* a completion with "sex" in another continuation: "Sexuality is a topic."
RE_SEXUALITY ==
    <<83, 101, 120, 117, 97, 108, 105, 116, 121, 32, 105, 115, 32, 97, 32, 116, 111, 112, 105,
    99, 46>>

\* a completion with a blocked phrase in capitals: "Das ist NICHT F\u00dcR KINDER."
RE_KINDER ==
    <<68, 97, 115, 32, 105, 115, 116, 32, 78, 73, 67, 72, 84, 32, 70, 220, 82, 32, 75, 73, 78,
    68, 69, 82, 46>>

FilterReplies ==
  {RE_CLEAN, RE_EXPLICIT, RE_ABUSE, RE_VIOLENCE, RE_HARASSMENT, RE_ABUSE_PORN, RE_ABUSE_SEX,
   RE_SEXUALITY, RE_KINDER}

HandlerOutcomes ==
  CompletionOutcomes
    \cup {[kind |-> "ok", status |-> 200, content |-> c, name |-> "", code |-> ""] :
            c \in FilterReplies}

\* The bodies of the requests: the first message of a conversation, and a later one.
HandlerRequests ==
  {Request(message, history) :
     message \in {IN_TIER, IN_SHORT, IN_HALLO},
     history \in {<<Message("bot", GREETING)>>,
                  <<Message("bot", GREETING), Message("user", IN_HALLO),
                    Message("bot", COMMON_PATTERNS[1].response)>>}}

InitHandler ==
  /\ messages = <<Message("bot", GREETING)>>
  /\ isLoading = FALSE
  /\ isTyping = FALSE
  /\ pc = "handler"
  /\ userInput = <<>>
  /\ historySize = 0
  /\ reply = null
  /\ outcome = ""
  /\ fetched = FALSE
  /\ settledAnswer = NoAnswer
  /\ responseCache = <<>>
  /\ requests \in {<<request>> : request \in HandlerRequests}
  /\ apiResponseCache = <<>>
  /\ apiKey \in ApiKeys

NextHandler ==
  \/ HandlerReceives(1)
  \/ \E o \in HandlerOutcomes : HandlerCompletes(1, o)
  \/ \E o \in AbortOutcomes : ApiTimeoutFires(1, o)

SpecHandler == InitHandler /\ [][NextHandler]_vars

(***************************************************************************)
(* The page in a conversation of three turns over a concerning and a clean *)
(* input: long enough for hasConcerningPattern to hold on a clean input.    *)
(***************************************************************************)

\* The number of messages the user sends in this conversation.
MaxSafetyTurns == 3

SafetyInputs == {IN_ANGST, IN_TIER}

\* handleSendMessage, for the first MaxSafetyTurns messages of the conversation.
HandleSendMessageLong(input) ==
  /\ Len(messages) < 1 + 2 * MaxSafetyTurns
  /\ StartTurn(input)

NextSafety ==
  \/ \E input \in SafetyInputs : HandleSendMessageLong(input)
  \/ GenerateBotResponse
  \/ FinishTurn
  \/ \E i \in 1..Len(requests) : TimeoutFires(i)
  \/ \E i \in 1..Len(requests) : ResponseArrives(i)
  \/ \E i \in 1..Len(requests) : FetchFails(i)
  \/ \E i \in 1..Len(requests) : GatewayAnswers(i)
  \/ \E i \in 1..Len(requests) : HandlerReceives(i)
  \/ \E i \in 1..Len(requests) : \E o \in CompletionOutcomes : HandlerCompletes(i, o)
  \/ \E i \in 1..Len(requests) : \E o \in AbortOutcomes : ApiTimeoutFires(i, o)

SpecSafety == Init /\ [][NextSafety]_vars

(***************************************************************************)
(* pages/api/chat.js on one request, with a response cache that earlier    *)
(* requests have filled or nearly filled.                                  *)
(***************************************************************************)

\* How many entries short of API_CACHE_LIMIT the handler's cache starts at most.
MaxApiFree == 1

\* The handler's cache after n requests with distinct messages and a history of
\* one message, each answered RE_CLEAN by the completion service.
ApiFilledCache(n) ==
  [i \in 1..n |-> [key |-> CacheKey(Filler(i), 1), value |-> RE_CLEAN]]

\* Requests whose key is in the cache (the first and the second message cached,
\* with a history of one message) and requests whose key is new.
ApiCacheRequests ==
  {Request(message, history) :
     message \in {Filler(1), Filler(2), IN_TIER, IN_SHORT},
     history \in {<<Message("bot", GREETING)>>,
                  <<Message("bot", GREETING), Message("user", IN_HALLO),
                    Message("bot", COMMON_PATTERNS[1].response)>>}}

InitApiCache ==
  /\ messages = <<Message("bot", GREETING)>>
  /\ isLoading = FALSE
  /\ isTyping = FALSE
  /\ pc = "handler"
  /\ userInput = <<>>
  /\ historySize = 0
  /\ reply = null
  /\ outcome = ""
  /\ fetched = FALSE
  /\ settledAnswer = NoAnswer
  /\ responseCache = <<>>
  /\ requests \in {<<request>> : request \in ApiCacheRequests}
  /\ apiResponseCache \in
       {ApiFilledCache(n) : n \in (API_CACHE_LIMIT - MaxApiFree)..API_CACHE_LIMIT}
  /\ apiKey \in ApiKeys

NextApiCache ==
  \/ HandlerReceives(1)
  \/ \E o \in HandlerOutcomes : HandlerCompletes(1, o)
  \/ \E o \in AbortOutcomes : ApiTimeoutFires(1, o)

SpecApiCache == InitApiCache /\ [][NextApiCache]_vars

(***************************************************************************)
(* pages/api/chat.js on one request with a received history of any length  *)
(* up to MaxReceived: the messages of the completion request.              *)
(***************************************************************************)

\* The length of the longest history received.
MaxReceived == 7

\* The messages a received history is made of: of the user, of the bot, and of
\* a sender that is neither.
ReceivedMessages ==
  {Message("user", IN_HALLO), Message("bot", RE_CLEAN), Message("moderator", IN_SHORT)}

RECURSIVE ReceivedHistories(_)
ReceivedHistories(n) ==
  IF n = 0 THEN {<<>>}
  ELSE ReceivedHistories(n - 1)
         \cup {Append(h, m) : h \in {g \in ReceivedHistories(n - 1) : Len(g) = n - 1},
                              m \in ReceivedMessages}

InitMessages ==
  /\ messages = <<Message("bot", GREETING)>>
  /\ isLoading = FALSE
  /\ isTyping = FALSE
  /\ pc = "handler"
  /\ userInput = <<>>
  /\ historySize = 0
  /\ reply = null
  /\ outcome = ""
  /\ fetched = FALSE
  /\ settledAnswer = NoAnswer
  /\ responseCache = <<>>
  /\ requests \in {<<Request(IN_TIER, history)>> : history \in ReceivedHistories(MaxReceived)}
  /\ apiResponseCache = <<>>
  /\ apiKey = KEY_VALID

NextMessages ==
  \/ HandlerReceives(1)
  \/ \E o \in {c \in CompletionOutcomes : c.kind = "ok" /\ c.content = RE_CLEAN} :
       HandlerCompletes(1, o)
  \/ \E o \in AbortOutcomes : ApiTimeoutFires(1, o)

SpecMessages == InitMessages /\ [][NextMessages]_vars

(***************************************************************************)
(* The page in a conversation of five turns over a concerning and a clean  *)
(* input, with a server that is not reached: every fetch fails or is       *)
(* outlasted by the timer.                                                  *)
(***************************************************************************)

\* The number of messages the user sends in this conversation.
MaxStickyTurns == 5

\* handleSendMessage, for the first MaxStickyTurns messages of the conversation.
HandleSendMessageSticky(input) ==
  /\ Len(messages) < 1 + 2 * MaxStickyTurns
  /\ StartTurn(input)

NextSticky ==
  \/ \E input \in SafetyInputs : HandleSendMessageSticky(input)
  \/ GenerateBotResponse
  \/ FinishTurn
  \/ \E i \in 1..Len(requests) : TimeoutFires(i)
  \/ \E i \in 1..Len(requests) : ResponseArrives(i)
  \/ \E i \in 1..Len(requests) : FetchFails(i)

SpecSticky == Init /\ [][NextSticky]_vars

(***************************************************************************)
(* The page in a conversation over inputs that toLowerCase maps to one     *)
(* cache key but the patterns of COMMON_PATTERNS tell apart.               *)
(***************************************************************************)

\* An input with the Kelvin sign in place of "K": "DanKe"
IN_DANKE_KELVIN == <<68, 97, 110, 8490, 101>>

\* an input of the thanks pattern: "danke"
IN_DANKE_PLAIN == <<100, 97, 110, 107, 101>>

ShadowInputs == {IN_DANKE_KELVIN, IN_DANKE_PLAIN, IN_TIER}

NextShadow ==
  \/ \E input \in ShadowInputs : HandleSendMessage(input)
  \/ GenerateBotResponse
  \/ FinishTurn
  \/ \E i \in 1..Len(requests) : TimeoutFires(i)
  \/ \E i \in 1..Len(requests) : ResponseArrives(i)
  \/ \E i \in 1..Len(requests) : FetchFails(i)
  \/ \E i \in 1..Len(requests) : GatewayAnswers(i)
  \/ \E i \in 1..Len(requests) : HandlerReceives(i)
  \/ \E i \in 1..Len(requests) : \E o \in CompletionOutcomes : HandlerCompletes(i, o)
  \/ \E i \in 1..Len(requests) : \E o \in AbortOutcomes : ApiTimeoutFires(i, o)

SpecShadow == Init /\ [][NextShadow]_vars

(***************************************************************************)
(* The page in a conversation of three turns over a question in two letter *)
(* cases, a greeting and a concerning input, with a completion service     *)
(* that answers.                                                           *)
(***************************************************************************)

\* The number of messages the user sends in this conversation.
MaxRecallTurns == 3

RecallInputs == {IN_TIER, IN_TIER_UPPER, IN_HALLO, IN_ANGST}

\* handleSendMessage, for the first MaxRecallTurns messages of the conversation.
HandleSendMessageRecall(input) ==
  /\ Len(messages) < 1 + 2 * MaxRecallTurns
  /\ StartTurn(input)

NextRecall ==
  \/ \E input \in RecallInputs : HandleSendMessageRecall(input)
  \/ GenerateBotResponse
  \/ FinishTurn
  \/ \E i \in 1..Len(requests) : TimeoutFires(i)
  \/ \E i \in 1..Len(requests) : ResponseArrives(i)
  \/ \E i \in 1..Len(requests) : HandlerReceives(i)
  \/ \E i \in 1..Len(requests) :
       \E o \in {c \in CompletionOutcomes : c.kind = "ok" /\ c.content = RE_CLEAN} :
         HandlerCompletes(i, o)

SpecRecall == Init /\ [][NextRecall]_vars

(***************************************************************************)
(* The turns with every timer of the page: the delay of 1200 ms before     *)
(* generateBotResponse, the timer of timeoutPromise, and the timers of the *)
(* reveal of the reply; once set, setTimeout's callback runs.  The step    *)
(* that leaves "delay" is GenerateBotResponse, the only action of Next     *)
(* that changes pc there and one that is enabled in every such state, so   *)
(* the first condition is weak fairness of GenerateBotResponse.            *)
(***************************************************************************)

FairTurnSpec ==
  /\ Spec
  /\ WF_pc(pc = "delay" /\ pc' \in {"typing", "racing"})
  /\ WF_vars((\E i \in 1..Len(requests) : TimeoutFires(i)) \/ FinishTurn)

(***************************************************************************)
(* The page with a server that answers every fetch with status 500: the    *)
(* bodies the catch (error) block of the handler builds, a body that names *)
(* the model, a body without an error text, and no JSON body at all.       *)
(***************************************************************************)

\* let errorMessage = (the error of the answer with status 500): "Es tut mir leid, ich habe ein Problem mit meiner API-Verbindung. Ein Erwachsener sollte den API-Schl\u00fcssel in den Umgebungsvariablen \u00fcberpr\u00fcfen."
API_ERROR_DEFAULT ==
    <<69, 115, 32, 116, 117, 116, 32, 109, 105, 114, 32, 108, 101, 105, 100, 44, 32, 105, 99,
    104, 32, 104, 97, 98, 101, 32, 101, 105, 110, 32, 80, 114, 111, 98, 108, 101, 109, 32, 109,
    105, 116, 32, 109, 101, 105, 110, 101, 114, 32, 65, 80, 73, 45, 86, 101, 114, 98, 105, 110,
    100, 117, 110, 103, 46, 32, 69, 105, 110, 32, 69, 114, 119, 97, 99, 104, 115, 101, 110,
    101, 114, 32, 115, 111, 108, 108, 116, 101, 32, 100, 101, 110, 32, 65, 80, 73, 45, 83, 99,
    104, 108, 252, 115, 115, 101, 108, 32, 105, 110, 32, 100, 101, 110, 32, 85, 109, 103, 101,
    98, 117, 110, 103, 115, 118, 97, 114, 105, 97, 98, 108, 101, 110, 32, 252, 98, 101, 114,
    112, 114, 252, 102, 101, 110, 46>>

\* errorMessage for an API-Modellfehler: "Es tut mir leid, ich habe ein Problem mit meiner API-Verbindung. Das verwendete Modell scheint nicht verf\u00fcgbar zu sein. Ein Erwachsener sollte die Konfiguration \u00fcberpr\u00fcfen."
API_ERROR_MODEL ==
    <<69, 115, 32, 116, 117, 116, 32, 109, 105, 114, 32, 108, 101, 105, 100, 44, 32, 105, 99,
    104, 32, 104, 97, 98, 101, 32, 101, 105, 110, 32, 80, 114, 111, 98, 108, 101, 109, 32, 109,
    105, 116, 32, 109, 101, 105, 110, 101, 114, 32, 65, 80, 73, 45, 86, 101, 114, 98, 105, 110,
    100, 117, 110, 103, 46, 32, 68, 97, 115, 32, 118, 101, 114, 119, 101, 110, 100, 101, 116,
    101, 32, 77, 111, 100, 101, 108, 108, 32, 115, 99, 104, 101, 105, 110, 116, 32, 110, 105,
    99, 104, 116, 32, 118, 101, 114, 102, 252, 103, 98, 97, 114, 32, 122, 117, 32, 115, 101,
    105, 110, 46, 32, 69, 105, 110, 32, 69, 114, 119, 97, 99, 104, 115, 101, 110, 101, 114, 32,
    115, 111, 108, 108, 116, 101, 32, 100, 105, 101, 32, 75, 111, 110, 102, 105, 103, 117, 114,
    97, 116, 105, 111, 110, 32, 252, 98, 101, 114, 112, 114, 252, 102, 101, 110, 46>>

\* an error text that names the model, as a server other than the handler may send it: "model not found"
ERROR_MODEL_NOT_FOUND ==
    <<109, 111, 100, 101, 108, 32, 110, 111, 116, 32, 102, 111, 117, 110, 100>>

\* The answers with status 500.
ServerErrorAnswers ==
  {JsonError(500, API_ERROR_DEFAULT), JsonError(500, API_ERROR_MODEL),
   JsonError(500, ERROR_MODEL_NOT_FOUND), JsonError(500, null), UncaughtAnswer}

\* The server answers the fetch with status 500.
ServerFails(i, answer) ==
  /\ i <= MaxFetches
  /\ requests[i].stage = "sent"
  /\ requests' = [requests EXCEPT ![i].stage = "answered", ![i].answer = answer]
  /\ UNCHANGED <<clientVars, apiResponseCache, apiKey>>

NextServerError ==
  \/ \E input \in UserInputs : HandleSendMessage(input)
  \/ GenerateBotResponse
  \/ FinishTurn
  \/ \E i \in 1..Len(requests) : TimeoutFires(i)
  \/ \E i \in 1..Len(requests) : ResponseArrives(i)
  \/ \E i \in 1..Len(requests) : \E answer \in ServerErrorAnswers : ServerFails(i, answer)

SpecServerError == Init /\ [][NextServerError]_vars

(***************************************************************************)
(* Properties.                                                             *)
(***************************************************************************)

\* needle occurs in text, the letters compared without regard to case.
OccursIgnoringCase(text, needle) ==
  \E i \in 1..(Len(text) - Len(needle) + 1) :
    \A j \in 1..Len(needle) : LowerChar(text[i + j - 1]) = LowerChar(needle[j])

\* Two characters are the same letter for a regular expression with flag i:
\* equal, or letters of ASCII or Latin-1 that differ in case only.
SameLetter(a, b) == a = b \/ (a < 256 /\ b < 256 /\ LowerChar(a) = LowerChar(b))

\* A regular expression with flag i finds the literal needle in text.
FindsIgnoringCase(text, needle) ==
  \E i \in 1..(Len(text) - Len(needle) + 1) :
    \A j \in 1..Len(needle) : SameLetter(text[i + j - 1], needle[j])

\* text contains an entry of CONCERN_KEYWORDS as a case-insensitive substring.
MentionsConcern(text) ==
  \E k \in 1..Len(CONCERN_KEYWORDS) : OccursIgnoringCase(text, CONCERN_KEYWORDS[k])

\* x is a string.
IsText(x) == \A i \in DOMAIN x : x[i] >= 0

\* The sentences the catch block of generateBotResponse can return.
FixedFallbacks ==
  {TIMEOUT_REPLY, NETWORK_REPLY, API_KEY_REPLY, MODEL_REPLY, SERVER_REPLY, GATEWAY_REPLY}
    \cup {fallbackResponses[r] : r \in 1..Len(fallbackResponses)}

\* The call of /api/chat of this turn failed: no answer before the timer, a
\* transport failure, a status outside 200..299, or a body without a reply.
CallFailed ==
  /\ fetched
  /\ \/ settledAnswer.status < 200
     \/ settledAnswer.status > 299
     \/ ~settledAnswer.json
     \/ ~Truthy(settledAnswer.response)

\* C1: when generateBotResponse has returned for an input that contains a
\* concern keyword in any case, it returned exactly the safety-resources
\* message, whatever the exact-match cache holds and whatever the remote
\* service did in the turns before.
C1_KeywordYieldsSafetyMessage ==
  (pc = "typing" /\ MentionsConcern(userInput))
    => reply = generateSafetyResourcesMessage

\* A keyword in upper case is answered with the safety message while the cache
\* holds the reply of an earlier fetch.
C1_Witness ==
  /\ pc = "typing"
  /\ userInput = IN_ANGST
  /\ reply = generateSafetyResourcesMessage
  /\ responseCache # <<>>
  /\ Len(requests) = 1

\* C2: generateBotResponse always returns a string; when the call of /api/chat
\* failed (no answer before the timer, transport failure, status outside 2xx,
\* empty or missing reply) the string is one of the fixed fallback sentences,
\* and when it succeeded the string is the reply of the answer.
C2_AlwaysOneString ==
  pc = "typing"
    => /\ IsText(reply)
       /\ CallFailed => reply \in FixedFallbacks
       /\ (fetched /\ ~CallFailed) => reply = settledAnswer.response

\* The handler answered 500 and the caller got the server sentence.
C2_Witness ==
  /\ pc = "typing"
  /\ fetched
  /\ settledAnswer.status = 500
  /\ reply = SERVER_REPLY

\* The timer of the turn in progress expires in this step.
TimerExpires ==
  /\ pc = "racing"
  /\ requests[Len(requests)].timer = "pending"
  /\ requests'[Len(requests)].timer = "fired"

\* C3: when the timer of timeoutPromise expires while the request is still
\* outstanding, generateBotResponse returns the timeout sentence in that very
\* step; and every turn that awaits /api/chat ends, even if no answer comes.
C3_TimeoutEndsTurn ==
  /\ [][TimerExpires => (pc' = "typing" /\ reply' = TIMEOUT_REPLY)]_vars
  /\ (pc = "racing" ~> pc = "typing")

\* The turn ended with the timeout sentence while the handler still awaits the
\* completion service.
C3_Witness ==
  /\ pc = "typing"
  /\ outcome = "timeout"
  /\ reply = TIMEOUT_REPLY
  /\ requests[Len(requests)].stage = "awaiting"

\* C4: every key the exact-match cache holds has a length from 4 to 99 and
\* contains no concern keyword: no input of length 3 or less, of length 100 or
\* more, or flagged concerning is stored.
C4_OnlyEligibleInputsCached ==
  \A i \in 1..Len(responseCache) :
    /\ Len(responseCache[i].key) >= 4
    /\ Len(responseCache[i].key) <= 99
    /\ ~MentionsConcern(responseCache[i].key)

\* Inputs of length 4 and 99 are held, and cacheResponse was just called with
\* an input of length 100.
C4_Witness ==
  /\ outcome = "store"
  /\ userInput = IN_LONG
  /\ MapHas(responseCache, IN_FOUR)
  /\ MapHas(responseCache, IN_NEARLY_LONG)

\* cacheResponse is called in this step with an eligible input whose key the
\* full cache does not hold.
AdmitsNewKeyWhenFull ==
  /\ outcome' = "store"
  /\ Len(responseCache) = CACHE_LIMIT
  /\ Len(userInput') >= 4
  /\ Len(userInput') <= 99
  /\ ~MentionsConcern(userInput')
  /\ ~MapHas(responseCache, toLowerCase(userInput'))

\* C5: when cacheResponse admits a new key into a cache of 100 entries, the
\* entry inserted first is removed and no other, the 99 others keep their
\* order and the new entry comes last; a lookup leaves the cache as it is.
C5_EvictsOldestOnly ==
  [][/\ AdmitsNewKeyWhenFull
        => responseCache' =
             Append(Tail(responseCache),
                    [key |-> toLowerCase(userInput'), value |-> reply'])
     /\ outcome' = "lookup" => responseCache' = responseCache]_vars

\* The first entry was evicted for a new key, and only that one.
C5_Witness ==
  /\ outcome = "store"
  /\ userInput = IN_FOUR
  /\ Len(responseCache) = CACHE_LIMIT
  /\ ~MapHas(responseCache, Filler(1))
  /\ MapHas(responseCache, Filler(2))
  /\ responseCache[CACHE_LIMIT].key = IN_FOUR

\* The positions of the user's messages in a history.
UserTurns(history) == {i \in 1..Len(history) : history[i].sender = "user"}

\* The positions of the last three of them (of all, if there are fewer).
LastUserTurns(history) ==
  {i \in UserTurns(history) : Cardinality({j \in UserTurns(history) : j > i}) < 3}

\* At least two of the last three user turns contain a concern keyword.
TwoOfLastThree(history) ==
  Cardinality({i \in LastUserTurns(history) : MentionsConcern(history[i].text)}) >= 2

\* The regular expression of the n-th entry of COMMON_PATTERNS matches input.
MatchesPattern(n, input) ==
  \E a \in 1..Len(COMMON_PATTERNS[n].alternatives) :
    LET alternative == COMMON_PATTERNS[n].alternatives[a]
    IN IF COMMON_PATTERNS[n].anchored
       THEN /\ Len(alternative) <= Len(input)
            /\ \A j \in 1..Len(alternative) : SameLetter(input[j], alternative[j])
       ELSE FindsIgnoringCase(input, alternative)

\* This call repeats the input of the turn before, whose reply the cache holds.
RepeatsCachedTurn ==
  /\ historySize >= 2
  /\ messages[historySize - 1] = Message("user", userInput)
  /\ messages[historySize].sender = "bot"
  /\ MapHas(responseCache, toLowerCase(userInput))
  /\ MapGet(responseCache, toLowerCase(userInput)) = messages[historySize].text

\* C6: when generateBotResponse is called again with the input of the turn
\* before and the cache holds that turn's reply for it, it returns the same
\* reply text and issues no fetch of /api/chat.
C6_RepeatedInputServedFromCache ==
  (pc = "typing" /\ RepeatsCachedTurn)
    => (reply = messages[historySize].text /\ ~fetched)

\* The second turn repeats the question of the first and gets its reply again.
C6_Witness ==
  /\ pc = "typing"
  /\ historySize = 3
  /\ messages[2] = Message("user", IN_TIER)
  /\ userInput = IN_TIER
  /\ reply = RE_CLEAN
  /\ messages[3].text = RE_CLEAN
  /\ Len(requests) = 1

C8_TwoOfLastThreeUserTurns ==
  pc = "scanned" => (outcome = "pattern" <=> TwoOfLastThree(messages))

\* Three of five user turns are concerning, but only one of the last three.
C8_Witness ==
  /\ pc = "scanned"
  /\ outcome = "no pattern"
  /\ messages = <<Message("user", IN_ANGST), Message("user", IN_ANGST),
                  Message("user", IN_TIER), Message("user", IN_TIER),
                  Message("user", IN_ANGST)>>

\* The turn in progress was decided on an answer of the handler.
HandlerAnswered ==
  /\ fetched
  /\ settledAnswer # NoAnswer
  /\ settledAnswer # FetchFailure
  /\ settledAnswer # GatewayAnswer

\* C9: with DEEPSEEK_API_KEY unset or blank, a turn that the handler answered
\* ends with the check-the-API-key sentence, and the completion service was
\* not called.
C9_MissingKeyYieldsKeySentence ==
  (pc = "typing" /\ (apiKey = null \/ apiKey = KEY_BLANK) /\ HandlerAnswered)
    => /\ reply = API_KEY_REPLY
       /\ \A i \in 1..Len(requests) : ~requests[i].called

\* C10: when the completion service rejects the call with status 401 or 403,
\* the handler answers with source 'auth_error' and the check-the-API-key
\* sentence.
C10_AuthRejectionYieldsAuthError ==
  \A i \in 1..Len(requests) :
    (/\ requests[i].stage = "answered"
     /\ requests[i].completion.kind = "status"
     /\ requests[i].completion.status \in {401, 403})
      => /\ requests[i].answer.source = "auth_error"
         /\ requests[i].answer.response = API_AUTH_RESPONSE

\* C11: when the handler's timer fires and aborts the call of the completion
\* service, the handler answers with source 'timeout' and the need-more-time
\* sentence.
C11_AbortYieldsTimeoutAnswer ==
  \A i \in 1..Len(requests) :
    (requests[i].stage = "answered" /\ requests[i].apiTimer = "fired")
      => /\ requests[i].answer.source = "timeout"
         /\ requests[i].answer.response = API_TIMEOUT_RESPONSE

\* needle occurs in text at position i, the letters compared without case.
OccursAt(text, i, needle) ==
  /\ i + Len(needle) - 1 <= Len(text)
  /\ \A j \in 1..Len(needle) : SameLetter(text[i + j - 1], needle[j])

\* "sex" occurs in text somewhere else than at the start of "sexual violence",
\* "sexual abuse" or "sexual harassment".
SexOutsideCarveOut(text) ==
  \E i \in 1..Len(text) :
    /\ OccursAt(text, i, UNSAFE_SEX)
    /\ \A c \in 1..Len(SEX_CARVE_OUTS) : ~OccursAt(text, i, UNSAFE_SEX \o SEX_CARVE_OUTS[c])

\* text matches a pattern of the blocklist.
Blocked(text) ==
  \/ SexOutsideCarveOut(text)
  \/ \E p \in 1..Len(UNSAFE_PATTERNS) : FindsIgnoringCase(text, UNSAFE_PATTERNS[p])

ListedOrigins == {"api", "fallback", "timeout", "auth_error", "error"}

\* C13: every answer of the handler to a POST request that carries a message is
\* a JSON body with a text and an origin, and the origin is one of api,
\* fallback, timeout, auth_error, error.
C13_AnswerHasListedOrigin ==
  \A i \in 1..Len(requests) :
    (/\ requests[i].stage = "answered"
     /\ requests[i].method = "POST"
     /\ Truthy(requests[i].message))
      => /\ requests[i].answer.json
         /\ requests[i].answer.response # null
         /\ requests[i].answer.source \in ListedOrigins

\* C14: each error kind has one sentence: the reply of a turn whose request
\* failed does not depend on the index Math.random() picks, and a turn the
\* resolver's timer ended gets the sentence a turn the handler's timer ended
\* gets.
C14_OneSentencePerErrorKind ==
  /\ \A i \in 1..Len(requests) :
       (requests[i].stage = "answered" /\ Current(i))
         => \A r1, r2 \in 1..Len(fallbackResponses) :
              AfterRace(Settle(requests[i].answer), responseCache, userInput, r1).reply
                = AfterRace(Settle(requests[i].answer), responseCache, userInput, r2).reply
  /\ outcome = "timeout" => reply = API_TIMEOUT_RESPONSE

\* C15: whatever the outcome of the completion call, the handler has sent a
\* response carrying a reply string when it ends; it never ends by throwing
\* with nothing sent.
C15_HandlerSendsOneReply ==
  \A i \in 1..Len(requests) :
    (/\ requests[i].stage = "answered"
     /\ requests[i].method = "POST"
     /\ Truthy(requests[i].message))
      => /\ requests[i].answer # UncaughtAnswer
         /\ requests[i].answer.json
         /\ IsText(requests[i].answer.response)
         /\ requests[i].answer.response # null

\* The turns outstanding: the user messages that have no reply yet (every
\* turn ends by appending one bot message; the greeting is not a reply).
OutstandingTurns(history) ==
  Cardinality(UserTurns(history))
    - (Cardinality({i \in 1..Len(history) : history[i].sender = "bot"}) - 1)

\* C16: at most one turn is outstanding at any time, and exactly while
\* isLoading is true; a message is sent only when none is outstanding.
C16_AtMostOneTurnOutstanding ==
  /\ OutstandingTurns(messages) \in {0, 1}
  /\ OutstandingTurns(messages) = 1 <=> isLoading
  /\ pc \in {"delay", "racing", "typing"} => isLoading

\* A request is in flight for the one outstanding turn.
C16_Witness ==
  /\ pc = "racing"
  /\ isLoading
  /\ OutstandingTurns(messages) = 1
  /\ Cardinality(UserTurns(messages)) = 2

\* Request i settles in this step, after its timer has fired.
LateResponse(i) ==
  /\ requests[i].timer = "fired"
  /\ requests[i].stage = "answered"
  /\ requests'[i].stage = "settled"

\* The timer of request i fires in this step, after its response has settled.
LateExpiry(i) ==
  /\ requests[i].stage = "settled"
  /\ requests[i].timer = "pending"
  /\ requests'[i].timer = "fired"

\* C17: the first event of the race alone determines the reply. A turn its
\* timer ended has the timeout sentence and no response was taken for it; a
\* response that arrives after the timer fired, and a timer that fires after
\* the response arrived, change neither the reply nor the cache nor the
\* conversation.
C17_FirstEventDecides ==
  /\ []((fetched /\ outcome = "timeout")
          => (reply = TIMEOUT_REPLY /\ settledAnswer = NoAnswer))
  /\ [][\A i \in 1..Len(requests) :
          (LateResponse(i) \/ LateExpiry(i))
            => UNCHANGED <<reply, responseCache, outcome, settledAnswer, messages, pc>>]_vars

\* The response of the turn the timer ended has arrived since, and the reply is
\* still the timeout sentence.
C17_Witness ==
  /\ fetched
  /\ outcome = "timeout"
  /\ reply = TIMEOUT_REPLY
  /\ requests[Len(requests)].timer = "fired"
  /\ requests[Len(requests)].stage = "settled"
  /\ requests[Len(requests)].called

\* C18: after a turn that the response completed, no timer of its request is
\* pending, neither the resolver's nor the handler's.
C18_NoTimerLeftAfterSuccess ==
  (fetched /\ outcome = "reply")
    => /\ requests[Len(requests)].timer # "pending"
       /\ requests[Len(requests)].apiTimer # "pending"

\* The conversation as it was when the turn in progress started.
HistoryAtSend == SubSeq(messages, 1, historySize)

\* The turn in progress falls under the safety override: its input mentions a
\* concern keyword, or two of the last three user turns before it do.
OverrideCase == MentionsConcern(userInput) \/ TwoOfLastThree(HistoryAtSend)

\* C19: a turn that falls under the safety override is answered with the
\* safety-resources message; from that answer until the next turn starts, the
\* exact-match cache stays as it was and no request is issued; and no value
\* of the cache is the safety-resources message.
C19_OverrideLeavesCacheAlone ==
  /\ [](\A e \in 1..Len(responseCache) :
          responseCache[e].value # generateSafetyResourcesMessage)
  /\ []((pc \in {"racing", "typing"} /\ OverrideCase)
          => (outcome = "safety" /\ ~fetched /\ reply = generateSafetyResourcesMessage))
  /\ [][(outcome = "safety" \/ outcome' = "safety")
          => (responseCache' = responseCache /\ Len(requests') = Len(requests))]_vars

\* The override answered a clean input after two concerning ones.
C19_PatternWitness ==
  /\ outcome = "safety"
  /\ pc = "typing"
  /\ ~MentionsConcern(userInput)
  /\ TwoOfLastThree(HistoryAtSend)

\* C20: the pair (input, reply) of a turn is in the exact-match cache only if
\* the answer the turn was decided on has origin api or fallback; after an
\* answer of origin timeout, auth_error or error the pair is not stored.
C20_CachedOnlyOnSuccess ==
  (/\ fetched
   /\ settledAnswer # NoAnswer
   /\ MapHas(responseCache, toLowerCase(userInput))
   /\ MapGet(responseCache, toLowerCase(userInput)) = reply)
    => settledAnswer.source \in {"api", "fallback"}

\* C21: the handler's response cache never holds more than 100 entries,
\* whichever path stored the latest one.
C21_ApiCacheBounded == Len(apiResponseCache) <= API_CACHE_LIMIT

\* How many messages of a received history are sent on: all, but at most five.
SentOn(history) == IF Len(history) < 5 THEN Len(history) ELSE 5

\* C22: the messages sent to the completion service are the system instruction,
\* then the last five (or all, if fewer) messages of the received history in
\* their order, sender 'user' as role 'user' and any other sender as role
\* 'assistant', then the current message as role 'user': two to seven messages.
C22_CompletionRequestMessages ==
  \A i \in 1..Len(requests) :
    requests[i].called
      => LET body == requests[i].body
             history == requests[i].messageHistory
             first == Len(history) - SentOn(history)
         IN /\ Len(body) = SentOn(history) + 2
            /\ Len(body) \in 2..7
            /\ body[1] = [role |-> "system", content |-> CHILD_SAFE_SYSTEM_PROMPT]
            /\ body[Len(body)] = [role |-> "user", content |-> requests[i].message]
            /\ \A j \in 1..SentOn(history) :
                 /\ body[1 + j].content = history[first + j].text
                 /\ body[1 + j].role =
                      IF history[first + j].sender = "user" THEN "user" ELSE "assistant"

\* A history of seven messages was received, its first two left out, a message
\* of a third sender sent on as the assistant's.
C22_Witness ==
  /\ requests[1].called
  /\ Len(requests[1].messageHistory) = 7
  /\ Len(requests[1].body) = 7
  /\ requests[1].messageHistory[1].sender = "user"
  /\ requests[1].messageHistory[2].sender = "user"
  /\ requests[1].messageHistory[3].sender = "moderator"
  /\ requests[1].body[2].role = "assistant"
  /\ requests[1].body[2].content = IN_SHORT
  /\ requests[1].messageHistory[7].sender = "bot"

\* The texts of the user's messages, in order; the last one is the input of the
\* turn in progress while a turn is in progress.
UserTexts == [i \in 1..Cardinality(UserTurns(messages)) |->
                messages[CHOOSE p \in UserTurns(messages) :
                           Cardinality({q \in UserTurns(messages) : q <= p}) = i].text]

\* The k-th user message from the end mentions a concern keyword.
ConcernAt(k) == MentionsConcern(UserTexts[Len(UserTexts) - k])

\* A turn is in progress and generateBotResponse has decided on its path.
Decided == pc \in {"racing", "typing"}

\* The turn in progress went on to the cache and remote stages.
Proceeded == outcome # "safety" /\ (fetched \/ outcome = "cache")

\* C23: a clean input gets the safety message exactly when two of the last
\* three user turns before it are concerning: the first and the second clean
\* input after two concerning turns in a row get it, the third in a row goes
\* on to the cache and remote stages.
C23_OverrideSticksForTwoTurns ==
  Decided =>
    LET n == Len(UserTexts)
    IN /\ ~ConcernAt(0)
          => (outcome = "safety"
                <=> TwoOfLastThree(SubSeq(messages, 1, Len(messages) - 1)))
       /\ (n >= 3 /\ ConcernAt(2) /\ ConcernAt(1) /\ ~ConcernAt(0))
          => outcome = "safety"
       /\ (n >= 4 /\ ConcernAt(3) /\ ConcernAt(2) /\ ~ConcernAt(1) /\ ~ConcernAt(0))
          => outcome = "safety"
       /\ (n >= 5 /\ ConcernAt(4) /\ ConcernAt(3)
             /\ ~ConcernAt(2) /\ ~ConcernAt(1) /\ ~ConcernAt(0))
          => Proceeded

\* Two concerning turns, two clean turns answered with the safety message, and
\* a third clean turn that fetches.
C23_Witness ==
  /\ pc = "racing"
  /\ fetched
  /\ Len(UserTexts) = 5
  /\ ConcernAt(4) /\ ConcernAt(3) /\ ~ConcernAt(2) /\ ~ConcernAt(1) /\ ~ConcernAt(0)
  /\ messages[7].text = generateSafetyResourcesMessage
  /\ messages[9].text = generateSafetyResourcesMessage

\* The positions of the last two messages of the user.
LastTwoUserTurns(history) ==
  {i \in UserTurns(history) : Cardinality({j \in UserTurns(history) : j > i}) < 2}

\* C24: messages of the bot never count towards hasConcerningPattern. With no
\* concerning message of the user it is false, whatever the bot's messages
\* contain; and the bot's messages take none of the three inspected places:
\* when the user's last two messages are concerning it is true, however many
\* messages of the bot come between and after them.
C24_BotTurnsNeverCount ==
  pc = "scanned" =>
    /\ (\A i \in UserTurns(messages) : ~MentionsConcern(messages[i].text))
         => outcome = "no pattern"
    /\ (/\ Cardinality(UserTurns(messages)) >= 2
        /\ \A i \in LastTwoUserTurns(messages) : MentionsConcern(messages[i].text))
         => outcome = "pattern"

\* The last four messages are safety-resources messages of the bot, which
\* mention concern keywords; the user's only message is clean.
C24_Witness ==
  /\ pc = "scanned"
  /\ outcome = "no pattern"
  /\ MentionsConcern(generateSafetyResourcesMessage)
  /\ messages = <<Message("user", IN_TIER),
                  Message("bot", generateSafetyResourcesMessage),
                  Message("bot", generateSafetyResourcesMessage),
                  Message("bot", generateSafetyResourcesMessage),
                  Message("bot", generateSafetyResourcesMessage)>>

\* input matches one of the COMMON_PATTERNS.
MatchesSomePattern(input) == \E n \in 1..Len(COMMON_PATTERNS) : MatchesPattern(n, input)

\* C25: no key of the exact-match cache matches one of the COMMON_PATTERNS, and
\* so an input that matches a pattern is never answered from an exact-match
\* entry.
C25_NoKeyMatchesPattern ==
  /\ \A e \in 1..Len(responseCache) : ~MatchesSomePattern(responseCache[e].key)
  /\ (pc = "typing" /\ outcome = "cache" /\ MatchesSomePattern(userInput))
       => \E n \in 1..Len(COMMON_PATTERNS) : reply = COMMON_PATTERNS[n].response

\* Two texts that differ in the case of their letters only.
EqualIgnoringCase(a, b) ==
  /\ Len(a) = Len(b)
  /\ \A j \in 1..Len(a) : LowerChar(a[j]) = LowerChar(b[j])

\* The entries of the exact-match cache stored for the input, in any letter case.
EntriesFor(input) ==
  {e \in 1..Len(responseCache) : EqualIgnoringCase(responseCache[e].key, input)}

\* generateBotResponse decides in this step on the path of the turn in progress.
Decides == pc = "delay" /\ pc' # "delay"

\* C26: a hit in the exact-match cache depends on the input alone, the case of
\* its letters aside. Whatever the history, as long as hasConcerningPattern
\* does not hold on it, generateBotResponse on an input the cache has an entry
\* for returns the stored reply and issues no request.
C26_HitDependsOnInputOnly ==
  [][(/\ Decides
      /\ EntriesFor(userInput) # {}
      /\ ~TwoOfLastThree(SubSeq(messages, 1, Len(messages) - 1)))
       => /\ pc' = "typing"
          /\ \E e \in EntriesFor(userInput) : reply' = responseCache[e].value
          /\ requests' = requests
          /\ responseCache' = responseCache]_vars

\* The question of the first turn, asked again in upper case after a greeting,
\* was answered from the cache.
C26_Witness ==
  /\ pc = "typing"
  /\ outcome = "cache"
  /\ ~fetched
  /\ Len(messages) = 6
  /\ messages[2].text = IN_TIER
  /\ messages[4].text = IN_HALLO
  /\ userInput = IN_TIER_UPPER
  /\ reply = messages[3].text
  /\ EntriesFor(userInput) # {}

\* After the greeting the list alternates: a message of the user, then one of
\* the bot.
Alternates(history) ==
  \A k \in 2..Len(history) :
    history[k].sender = IF k % 2 = 0 THEN "user" ELSE "bot"

\* C27: every call of handleSendMessage with a non-blank input appends one
\* message of the user and later one of the bot, in that order, and in the end
\* isLoading and isTyping are false again, whether the call of /api/chat
\* succeeded or failed; a call with a blank input appends nothing and starts
\* no turn.
C27_EveryTurnEndsWithOneReply ==
  /\ [](/\ Alternates(messages)
        /\ isLoading <=> Len(messages) % 2 = 0
        /\ isTyping <=> isLoading
        /\ \A k \in UserTurns(messages) : ~IsBlank(messages[k].text))
  /\ [][Len(messages') \in {Len(messages), Len(messages) + 1}]_vars
  /\ (isLoading ~> (~isLoading /\ ~isTyping /\ Len(messages) % 2 = 1))

\* Two turns are over, the second after a failed call of /api/chat, and the
\* input is enabled again.
C27_Witness ==
  /\ pc = "idle"
  /\ Len(messages) = 5
  /\ ~isLoading
  /\ ~isTyping
  /\ fetched
  /\ outcome = "rejected"
  /\ messages[5] = Message("bot", reply)

=============================================================================
